---------------------------- MODULE Spec2Model ----------------------------
(***************************************************************************)
(* A model of the FFPE decoders (BioLogic MPR, Neware NDA, Neware NDAX)    *)
(* and of the shared step / half-cycle reconstruction routines.            *)
(*                                                                         *)
(* Each decoder is a small state machine of its own; the specification of  *)
(* one decoder leaves the variables of the others at their idle values.    *)
(* Field values are kept as the code reads them: integers little-endian,   *)
(* floating-point fields as their bit pattern (the bytes read).            *)
(***************************************************************************)
EXTENDS Integers, Sequences, FiniteSets, TLC

VARIABLES
    \* ---- BioLogic MPR data section (MPRff.VMPdata) ----
    softVersion,   \* version handed to the constructor
    data,          \* self.data: the section payload (sequence of bytes)
    dataSize,      \* self.dataSize: the declared payload length
    numDataPts,    \* self.numDataPts
    colList,       \* self.colList: the column codes resolved, in file order
    hasFlags,      \* self.hasFlags
    ptr,           \* self.ptr.value
    startOffs,     \* the value self.ptr was given by the constructor
    mprPc,         \* "raw" | "ready" | "failed"
    calls,         \* decode calls made on the object since construction
    table,         \* what the last getDataFrame call returned (NotRun if none)
    outSeq,        \* table of a parse() started at startOffs
    outVec,        \* table of a parseVec() started at startOffs
    outMP,         \* table of a parseMP() started at startOffs
    \* ---- Neware NDAX paged stream (NDAXff.extractAllFromBuffer) ----
    buf,           \* the stream: a sequence of 4096-byte pages
    reqSize,       \* req_type.itemsize
    dropInvalid,   \* drop_invalid_records of the call made
    validatePages, \* validate_pages of the call made
    pageOut,       \* what extractAllFromBuffer returned (NoExtract if not called)
    pageFrame,     \* the rows NDAXff.fromFile keeps of data.ndc (NoFrame if not made)
    pristine,      \* the stream as it was written, before any byte of it changed
    pageValid,     \* what isPageValid returned for each page (<<>> if not called)
    \* ---- step reconstruction (Util/common.py, Neware/constants.py) ----
    seriesIn,      \* arr / step_series: the series handed to the routine
    boundaries,    \* the boundary array handed to convertStepToGlobal
    accOut,        \* the routine called and what it returned
    \* ---- half-cycle boundaries (Neware/constants.py, Util/common.py) ----
    modes,         \* the series of step type numbers
    trigNames,     \* the trigger step type names handed to the finder
    hcOut,         \* the finder called and what it returned
    \* ---- NDA decoder (Neware/NDAff.py) ----
    ndaMagic,      \* the first bytes of the file
    ndaContents,   \* the bytes of the file from the step definitions on
    ndaOut,        \* what fromFile returned (NdaNotRun if not called)
    \* ---- bit fields of a flags byte (common.getBitField) ----
    flagByte,      \* the byte the fields are taken from
    flagFields,    \* the fields asked for: a sequence of <<bitPos, fieldSize>>
    flagOut,       \* what getBitField returned for each field (<<>> if not called)
    \* ---- byte buffer and cursor (Util/common.py) ----
    rdData,        \* data: the buffer the reads are made on
    rdPtr,         \* ptr.value: the cursor of the sequential reads
    rdShared,      \* mySharedData of the process (unset until initProcess)
    rdOut,         \* the last call: its name, offset, width and outcome
    \* ---- MPR section framing (MPRff.VMPsection and its subclasses) ----
    secBlock,      \* datablock: the bytes handed to the constructor
    secOut,        \* the constructor called and what became of the call
    \* ---- NDA step definitions loop (NDAff.fromFile, lines 94-132) ----
    scanContents,  \* contents: the bytes of the file from the step definitions on
    scanPtr,       \* ptr.value
    scanStepId,    \* step_id
    scanStepInfos, \* step_infos
    scanAdvance,   \* how far the entry accepted last moved ptr (0: none accepted)
    scanOffset,    \* the offset handed to np.frombuffer (-1: not reached)
    scanPc,        \* "loop", "break" (left the loop), "done", "raised"
    \* ---- NDAX decoder (NDAXff.fromFile, lines 304-344) ----
    nxValid,       \* valid_data: one flag per record slot of data.ndc
    nxSteps,       \* step_data: the entries of data_step.ndc
    nxOut,         \* what fromFile did (NdaxNotRun if not called)
    \* ---- the worker pool of VMPdata.parseMP (MPRff.py 248-294) ----
    poolShared,    \* sharedData: the mp.Array made from self.data
    poolLayout,    \* blockOffsets, dataBlockSize, dataOffset
    poolWorkers,   \* per worker: mySharedData, what it is doing, its task
    poolCol,       \* the column whose starmap is in progress (1-based)
    poolPending,   \* record indices of that column no worker has taken
    poolResults,   \* the results of that column, by record index
    poolDataList,  \* self.dataList: one value list per column mapped
    poolPc,        \* "idle", "map", "done", "raised"
    \* ---- the two global accumulations side by side ----
    eqSeries,      \* a per-step series (step time, net charge)
    eqNs,          \* the step index of each record
    eqNda,         \* NDAff.accumulateSeriesSteps over constants.findStepChanges
    eqCommon,      \* common.convertStepToGlobal over common.findStepChanges
    \* ---- experiment facades (BioLogic/cycle_metrics.py, Neware/cycle_metrics.py) ----
    fcKind,        \* the class of the object: "Biologic" or "Neware"
    fcVersion,     \* self.version of a BiologicExperiment
    fcMetadata,    \* self.metadata and the file it was decoded from
    fcSequence,    \* self.measurement_sequence and the file it was decoded from
    fcLast,        \* the file of the last fromFile call, and whether it raised
    fcCalls        \* fromFile calls made on the object

mprVars == <<softVersion, data, dataSize, numDataPts, colList, hasFlags, ptr,
             startOffs, mprPc, calls, table, outSeq, outVec, outMP>>

pageVars == <<buf, reqSize, dropInvalid, validatePages, pageOut, pageFrame, pristine, pageValid>>

accVars == <<seriesIn, boundaries, accOut>>

hcVars == <<modes, trigNames, hcOut>>

ndaVars == <<ndaMagic, ndaContents, ndaOut>>

bitVars == <<flagByte, flagFields, flagOut>>

readVars == <<rdData, rdPtr, rdShared, rdOut>>

secVars == <<secBlock, secOut>>

ndaxVars == <<nxValid, nxSteps, nxOut>>

equivVars == <<eqSeries, eqNs, eqNda, eqCommon>>

facadeVars == <<fcKind, fcVersion, fcMetadata, fcSequence, fcLast, fcCalls>>

poolVars == <<poolShared, poolLayout, poolWorkers, poolCol, poolPending, poolResults,
              poolDataList, poolPc>>

scanVars == <<scanContents, scanPtr, scanStepId, scanStepInfos, scanAdvance, scanOffset, scanPc>>

vars == <<mprVars, pageVars, accVars, hcVars, ndaVars, bitVars, readVars, secVars, scanVars, ndaxVars, poolVars, equivVars, facadeVars>>

\* what a decoder's operations leave alone: the other decoders' state
notMPR == <<pageVars, accVars, hcVars, ndaVars, bitVars, readVars, secVars, scanVars, ndaxVars, poolVars, equivVars, facadeVars>>
notPage == <<mprVars, accVars, hcVars, ndaVars, bitVars, readVars, secVars, scanVars, ndaxVars, poolVars, equivVars, facadeVars>>
notAcc == <<mprVars, pageVars, hcVars, ndaVars, bitVars, readVars, secVars, scanVars, ndaxVars, poolVars, equivVars, facadeVars>>
notHC == <<mprVars, pageVars, accVars, ndaVars, bitVars, readVars, secVars, scanVars, ndaxVars, poolVars, equivVars, facadeVars>>
notNDA == <<mprVars, pageVars, accVars, hcVars, bitVars, readVars, secVars, scanVars, ndaxVars, poolVars, equivVars, facadeVars>>
notBits == <<mprVars, pageVars, accVars, hcVars, ndaVars, readVars, secVars, scanVars, ndaxVars, poolVars, equivVars, facadeVars>>
notRead == <<mprVars, pageVars, accVars, hcVars, ndaVars, bitVars, secVars, scanVars, ndaxVars, poolVars, equivVars, facadeVars>>
notScan == <<mprVars, pageVars, accVars, hcVars, ndaVars, bitVars, readVars, secVars, ndaxVars, poolVars, equivVars, facadeVars>>
notNdax == <<mprVars, pageVars, accVars, hcVars, ndaVars, bitVars, readVars, secVars, scanVars, poolVars, equivVars, facadeVars>>
notSection == <<pageVars, accVars, hcVars, ndaVars, bitVars, readVars, scanVars, ndaxVars, poolVars, equivVars, facadeVars>>
notPool == <<pageVars, accVars, hcVars, ndaVars, bitVars, readVars, secVars, scanVars, ndaxVars, equivVars, facadeVars>>
notEquiv == <<mprVars, pageVars, accVars, hcVars, ndaVars, bitVars, readVars, secVars, scanVars, ndaxVars, poolVars, facadeVars>>
notFacade == <<mprVars, pageVars, accVars, hcVars, ndaVars, bitVars, readVars, secVars, scanVars, ndaxVars, poolVars, equivVars>>

---------------------------------------------------------------------------
(* Bounds of the model *)
MaxCols == 3
MaxRecs == 2
MaxPad == 1
MaxCalls == 2
MaxPages == 2
MaxDelta == 2
MaxFields == 3
MaxBuf == 5
MaxStride == 2
MaxExcess == 1
MaxShort == 2
MaxScanSteps == 255
MaxNdaxRecs == 3
MaxNdaxSteps == 2
MaxWorkers == 2
MaxLead == 2
MaxLen == 4
MaxVal == 2
MaxBounds == 2
MaxSteps == 5
MaxNdaRecs == 3
MaxNdaPad == 1
MaxNs == 2
MaxFacadeCalls == 3

---------------------------------------------------------------------------
(* Python helpers *)

Min(a, b) == IF a < b THEN a ELSE b
Max(a, b) == IF a > b THEN a ELSE b

RECURSIVE Pow(_, _)
Pow(b, e) == IF e = 0 THEN 1 ELSE b * Pow(b, e - 1)

RECURSIVE SumSeq(_)
SumSeq(s) == IF s = <<>> THEN 0 ELSE Head(s) + SumSeq(Tail(s))

SeqsUpTo(S, n) == UNION {[1..k -> S] : k \in 0..n}

\* a slice bound as Python normalises it against a sequence of length n
SliceBound(i, n) == IF i < 0 THEN Max(n + i, 0) ELSE Min(i, n)

\* s[a:b]
PySlice(s, a, b) ==
    LET lo == SliceBound(a, Len(s))
        hi == SliceBound(b, Len(s))
    IN  IF hi <= lo THEN <<>> ELSE SubSeq(s, lo + 1, hi)

\* s[k], k in -Len(s)..Len(s)-1
PyIndex(s, k) == IF k < 0 THEN s[Len(s) + k + 1] ELSE s[k + 1]

---------------------------------------------------------------------------
(* FFPE/Util/common.py: primitive decode utilities *)

BYTE_SIZE == 1
SHORT_SIZE == 2
LONG_SIZE == 4
LLONG_SIZE == 8

IntFormats == {"<B", "<H", "<I", "<i", "<Q"}

\* the outcome of a read: a value, or the exception Python raises
Fail == [ok |-> FALSE, val |-> 0]
Ok(v) == [ok |-> TRUE, val |-> v]

RECURSIVE LEValue(_)
LEValue(bs) == IF bs = <<>> THEN 0 ELSE Head(bs) + 256 * LEValue(Tail(bs))

RECURSIVE LEBytes(_, _)
LEBytes(n, size) ==
    IF size = 0 THEN <<>> ELSE <<n % 256>> \o LEBytes(n \div 256, size - 1)

\* struct.unpack(fmt, raw)[0]: an error unless raw holds exactly size bytes
Unpack(fmt, size, raw) ==
    IF Len(raw) # size THEN Fail
    ELSE IF fmt \in IntFormats THEN Ok(LEValue(raw))
    ELSE Ok(raw)

getRawFlat(d, ptrVal, size) == PySlice(d, ptrVal, ptrVal + size)

getFieldFlat(d, ptrVal, fmt, size) == Unpack(fmt, size, PySlice(d, ptrVal, ptrVal + size))

getBitFieldUnshifted(bt, bitPos, fieldSize) == bt % Pow(2, fieldSize)

getBitField(bt, bitPos, fieldSize) == (bt \div Pow(2, bitPos)) % Pow(2, fieldSize)

getBitFieldFlat(d, ptrVal, bitPos, fieldSize) ==
    LET b == getFieldFlat(d, ptrVal, "<B", BYTE_SIZE)
    IN  IF ~b.ok THEN Fail ELSE Ok(getBitField(b.val, bitPos, fieldSize))

\* the outcome of a sequential read and the value it leaves in ptr.value
SeqRead(r, p) == [ok |-> r.ok, val |-> r.val, ptr |-> p]

\* checkField returns nothing: the assertion holds or raises
checkFieldFlat(d, ptrVal, expected) ==
    IF PySlice(d, ptrVal, ptrVal + Len(expected)) = expected THEN Ok(0) ELSE Fail

checkFieldKeepsCursor(d, ptrVal, expected) ==
    SeqRead(checkFieldFlat(d, ptrVal, expected), ptrVal)

checkField(d, ptrVal, expected) ==
    LET r == checkFieldFlat(d, ptrVal, expected)
    IN  SeqRead(r, IF r.ok THEN ptrVal + Len(expected) ELSE ptrVal)

\* r = data[ptr: ptr + size]; ptr.add(size)
getRaw(d, ptrVal, size) == SeqRead(Ok(PySlice(d, ptrVal, ptrVal + size)), ptrVal + size)

\* struct.unpack raises before ptr.add is reached
getField(d, ptrVal, fmt, size) ==
    LET r == getFieldFlat(d, ptrVal, fmt, size)
    IN  SeqRead(r, IF r.ok THEN ptrVal + size ELSE ptrVal)

getFieldsStridedFlat(d, ptrVal, blk, N, fmt, size) ==
    LET r == [idx \in 1..N |-> getFieldFlat(d, ptrVal + (idx - 1) * blk, fmt, size)]
    IN  IF \A idx \in 1..N : r[idx].ok THEN Ok([idx \in 1..N |-> r[idx].val]) ELSE Fail

getBitFieldsStridedFlat(d, ptrVal, blk, N, bitPos, fieldSize) ==
    LET r == [idx \in 1..N |-> getBitFieldFlat(d, ptrVal + (idx - 1) * blk, bitPos, fieldSize)]
    IN  IF \A idx \in 1..N : r[idx].ok THEN Ok([idx \in 1..N |-> r[idx].val]) ELSE Fail

\* the global mySharedData of a process: not defined until initProcess ran
SharedUnset == [set |-> FALSE, data |-> <<>>]
initProcess(sharedData) == [set |-> TRUE, data |-> sharedData]

\* the variants for multiprocessing read the global: a NameError if unset
getFieldFlatShared(shared, ptrVal, fmt, size) ==
    IF shared.set THEN getFieldFlat(shared.data, ptrVal, fmt, size) ELSE Fail

getFieldsStridedFlatShared(shared, ptrVal, blk, N, fmt, size) ==
    IF shared.set THEN getFieldsStridedFlat(shared.data, ptrVal, blk, N, fmt, size) ELSE Fail

getBitFieldFlatShared(shared, ptrVal, bitPos, fieldSize) ==
    IF shared.set THEN getBitFieldFlat(shared.data, ptrVal, bitPos, fieldSize) ELSE Fail

getBitFieldsStridedFlatShared(shared, ptrVal, blk, N, bitPos, fieldSize) ==
    IF shared.set THEN getBitFieldsStridedFlat(shared.data, ptrVal, blk, N, bitPos, fieldSize)
    ELSE Fail

UINT8 == <<"<B", BYTE_SIZE>>
UINT16 == <<"<H", SHORT_SIZE>>
UINT32 == <<"<I", LONG_SIZE>>
UINT64 == <<"<Q", LLONG_SIZE>>

\* ---- the buffers read and the reads made on them
\* one buffer of each length, byte k of it holding k
RdBuffers == {[k \in 1..n |-> k] : n \in 0..MaxBuf}
RdFormats == {UINT8, UINT16, UINT32}
RdLiterals == {<<1>>, <<1, 2>>, <<3>>}
RdBitFields == {<<0, 1>>, <<0, 2>>}
SequentialReads == {"checkField", "getRaw", "getField"}
FixedOffsetReads ==
    {"checkFieldFlat", "getRawFlat", "getFieldFlat", "getFieldsStridedFlat",
     "getBitFieldFlat", "getBitFieldsStridedFlat", "getFieldFlatShared",
     "getFieldsStridedFlatShared", "getBitFieldFlatShared", "getBitFieldsStridedFlatShared"}

NoCall == [op |-> "none", at |-> 0, size |-> 0, ok |-> FALSE, val |-> 0]
Called(op, at, size, r) == [op |-> op, at |-> at, size |-> size, ok |-> r.ok, val |-> r.val]

IdleRead ==
    /\ rdData = <<>>
    /\ rdPtr = 0
    /\ rdShared = SharedUnset
    /\ rdOut = NoCall

StartRead ==
    /\ rdData \in RdBuffers
    /\ rdPtr = 0
    /\ rdShared = SharedUnset
    /\ rdOut = NoCall

\* a sequential read is made with a cursor that has not left the buffer
SeqFrame(op, size, r) ==
    /\ rdPtr <= Len(rdData)
    /\ rdOut' = Called(op, rdPtr, size, r)
    /\ rdPtr' = r.ptr
    /\ UNCHANGED <<rdData, rdShared>>
    /\ UNCHANGED notRead

FlatFrame(op, at, size, r) ==
    /\ rdOut' = Called(op, at, size, r)
    /\ UNCHANGED <<rdData, rdPtr, rdShared>>
    /\ UNCHANGED notRead

CallCheckField ==
    \E expected \in RdLiterals :
        SeqFrame("checkField", Len(expected), checkField(rdData, rdPtr, expected))

CallGetRaw ==
    \E f \in RdFormats : SeqFrame("getRaw", f[2], getRaw(rdData, rdPtr, f[2]))

CallGetField ==
    \E f \in RdFormats : SeqFrame("getField", f[2], getField(rdData, rdPtr, f[1], f[2]))

CallCheckFieldFlat ==
    \E at \in 0..Len(rdData), expected \in RdLiterals :
        FlatFrame("checkFieldFlat", at, Len(expected), checkFieldFlat(rdData, at, expected))

CallGetRawFlat ==
    \E at \in 0..Len(rdData), f \in RdFormats :
        FlatFrame("getRawFlat", at, f[2], Ok(getRawFlat(rdData, at, f[2])))

CallGetFieldFlat ==
    \E at \in 0..Len(rdData), f \in RdFormats :
        FlatFrame("getFieldFlat", at, f[2], getFieldFlat(rdData, at, f[1], f[2]))

CallGetFieldsStridedFlat ==
    \E at \in 0..Len(rdData), blk \in 1..MaxStride, f \in RdFormats :
        FlatFrame("getFieldsStridedFlat", at, f[2],
                  getFieldsStridedFlat(rdData, at, blk, MaxStride, f[1], f[2]))

CallGetBitFieldFlat ==
    \E at \in 0..Len(rdData), bf \in RdBitFields :
        FlatFrame("getBitFieldFlat", at, BYTE_SIZE, getBitFieldFlat(rdData, at, bf[1], bf[2]))

CallGetBitFieldsStridedFlat ==
    \E at \in 0..Len(rdData), blk \in 1..MaxStride, bf \in RdBitFields :
        FlatFrame("getBitFieldsStridedFlat", at, BYTE_SIZE,
                  getBitFieldsStridedFlat(rdData, at, blk, MaxStride, bf[1], bf[2]))

\* the pool's initializer: initProcess(sharedData)
CallInitProcess ==
    /\ ~rdShared.set
    /\ rdShared' = initProcess(rdData)
    /\ rdOut' = Called("initProcess", 0, 0, Ok(0))
    /\ UNCHANGED <<rdData, rdPtr>>
    /\ UNCHANGED notRead

CallGetFieldFlatShared ==
    \E at \in 0..Len(rdData), f \in RdFormats :
        FlatFrame("getFieldFlatShared", at, f[2], getFieldFlatShared(rdShared, at, f[1], f[2]))

CallGetFieldsStridedFlatShared ==
    \E at \in 0..Len(rdData), blk \in 1..MaxStride, f \in RdFormats :
        FlatFrame("getFieldsStridedFlatShared", at, f[2],
                  getFieldsStridedFlatShared(rdShared, at, blk, MaxStride, f[1], f[2]))

CallGetBitFieldFlatShared ==
    \E at \in 0..Len(rdData), bf \in RdBitFields :
        FlatFrame("getBitFieldFlatShared", at, BYTE_SIZE,
                  getBitFieldFlatShared(rdShared, at, bf[1], bf[2]))

CallGetBitFieldsStridedFlatShared ==
    \E at \in 0..Len(rdData), blk \in 1..MaxStride, bf \in RdBitFields :
        FlatFrame("getBitFieldsStridedFlatShared", at, BYTE_SIZE,
                  getBitFieldsStridedFlatShared(rdShared, at, blk, MaxStride, bf[1], bf[2]))

\* ---- the bit fields taken from a flags byte
BYTE_BITS == 8 * BYTE_SIZE

\* the fields of widths ws laid side by side from bit 0 on
FieldsOfWidths(ws) == [k \in 1..Len(ws) |-> <<SumSeq(SubSeq(ws, 1, k - 1)), ws[k]>>]

\* the ways to split the 8 bits of a byte into at most MaxFields fields
Partitions ==
    {FieldsOfWidths(ws) : ws \in {w \in SeqsUpTo(1..BYTE_BITS, MaxFields) :
                                      SumSeq(w) = BYTE_BITS}}

IdleBits ==
    /\ flagByte = 0
    /\ flagFields = <<>>
    /\ flagOut = <<>>

StartBits ==
    /\ flagByte \in 0..255
    /\ flagFields \in Partitions
    /\ flagOut = <<>>

\* getBitField(flags, bitPos, fieldSize) for each field asked for
CallGetBitField ==
    /\ flagOut = <<>>
    /\ flagFields # <<>>
    /\ flagOut' = [k \in 1..Len(flagFields) |->
                        getBitField(flagByte, flagFields[k][1], flagFields[k][2])]
    /\ UNCHANGED <<flagByte, flagFields>>
    /\ UNCHANGED notBits

---------------------------------------------------------------------------
(* FFPE/BioLogic/MPRff.py *)

DATE_SIZE == 8
MODULE_SN_SIZE == 10
MODULE_LN_SIZE == 25

\* bytes.ljust(n, b" ")
Ljust(bs, n) == bs \o [k \in 1..(n - Len(bs)) |-> 32]

\* b"MODULE"
HEADER == <<77, 79, 68, 85, 76, 69>>
\* b"VMP Set", b"VMP settings"
VMP_SET_SN == Ljust(<<86, 77, 80, 32, 83, 101, 116>>, MODULE_SN_SIZE)
VMP_SET_LN == Ljust(<<86, 77, 80, 32, 115, 101, 116, 116, 105, 110, 103, 115>>, MODULE_LN_SIZE)
\* b"VMP data"
VMP_DATA_SN == Ljust(<<86, 77, 80, 32, 100, 97, 116, 97>>, MODULE_SN_SIZE)
VMP_DATA_LN == Ljust(<<86, 77, 80, 32, 100, 97, 116, 97>>, MODULE_LN_SIZE)
\* b"VMP LOG"
VMP_LOG_SN == Ljust(<<86, 77, 80, 32, 76, 79, 71>>, MODULE_SN_SIZE)
VMP_LOG_LN == Ljust(<<86, 77, 80, 32, 76, 79, 71>>, MODULE_LN_SIZE)

VersionsWith1000 == {1000, 1101, 1146, 1152}

ACCEPTED_VERSIONS == {1101, 1146, 1152}

Flag(name, fbit, fsize) == [name |-> name, fmt |-> "None", size |-> 0, fbit |-> fbit, fsize |-> fsize]
Num(name, fmt, size) == [name |-> name, fmt |-> fmt, size |-> size, fbit |-> 0, fsize |-> 0]
Single(name) == Num(name, "<f", LONG_SIZE)
Double(name) == Num(name, "<d", LLONG_SIZE)

VMP_DATA_FIELD_LIST ==
    (1 :> Flag("mode", 0, 2)) @@ (2 :> Flag("ox/red", 2, 1)) @@ (3 :> Flag("error", 3, 1)) @@
    (4 :> Double("time")) @@ (5 :> Single("control I")) @@ (6 :> Single("Ewe")) @@
    (7 :> Double("dq")) @@ (8 :> Single("I")) @@ (11 :> Double("<I>_mA")) @@
    (13 :> Double("Q-Q0")) @@ (19 :> Single("control V")) @@
    (21 :> Flag("control change", 4, 1)) @@ (24 :> Double("cycle number")) @@
    (31 :> Flag("Ns change", 5, 1)) @@ (32 :> Single("freq")) @@ (33 :> Single("|Ewe|")) @@
    (34 :> Single("|I|")) @@ (35 :> Single("angle(Z)")) @@ (36 :> Single("|Z|")) @@
    (37 :> Single("Re(Z)")) @@ (38 :> Single("-Im(Z)")) @@
    (39 :> Num("I range", "<H", SHORT_SIZE)) @@ (65 :> Flag("counter change", 7, 1)) @@
    (74 :> Double("Energy")) @@ (70 :> Single("P")) @@ (76 :> Single("<I>")) @@
    (77 :> Single("<Ewe>")) @@ (123 :> Double("Energy charge")) @@
    (124 :> Double("Energy discharge")) @@ (125 :> Double("Capacitance charge")) @@
    (126 :> Double("Capacitance discharge")) @@ (131 :> Num("Ns", "<H", SHORT_SIZE)) @@
    (169 :> Single("Cs")) @@ (172 :> Single("Cp")) @@ (434 :> Single("(Q-Q0)_C")) @@
    (438 :> Double("Step time")) @@ (467 :> Double("Q charge/discharge")) @@
    (468 :> Num("half cycle", "<I", LONG_SIZE)) @@ (469 :> Num("Z cycle", "<I", LONG_SIZE))

IsFlagCol(col) == col.fmt = "None"

\* np.dtype(self.record_spec).itemsize: the flags byte, if any column is a
\* bit-field, then the numeric columns in file order (a packed dtype)
RECURSIVE NumericWidth(_)
NumericWidth(cols) ==
    IF cols = <<>> THEN 0
    ELSE (IF IsFlagCol(Head(cols)) THEN 0 ELSE Head(cols).size) + NumericWidth(Tail(cols))

RecordItemsize(cols) ==
    (IF \E i \in DOMAIN cols : IsFlagCol(cols[i]) THEN BYTE_SIZE ELSE 0) + NumericWidth(cols)

\* offset of column i (1-based) inside the packed record dtype
FieldOffset(cols, i) ==
    (IF \E k \in DOMAIN cols : IsFlagCol(cols[k]) THEN BYTE_SIZE ELSE 0)
        + NumericWidth(SubSeq(cols, 1, i - 1))

\* a decode's outcome: not run yet, raised, or the table (one value list per column)
NotRun == [run |-> FALSE, ok |-> FALSE, cols |-> <<>>]
Raised == [run |-> TRUE, ok |-> FALSE, cols |-> <<>>]
Table(cs) == [run |-> TRUE, ok |-> TRUE, cols |-> cs]

\* VMPdata.__init__, the reads of the payload's own header: record count,
\* column count (2 bytes for 1152, else 1), then one 2-byte code per column,
\* each looked up by parseVMPDataCode
NumColsFmt(v) == IF v = 1152 THEN "<H" ELSE "<B"
NumColsSize(v) == IF v = 1152 THEN SHORT_SIZE ELSE BYTE_SIZE

ReadCodes(d, v, nc) ==
    [i \in 1..nc |-> getFieldFlat(d, LONG_SIZE + NumColsSize(v) + SHORT_SIZE * (i - 1),
                                  "<H", SHORT_SIZE)]

\* the column an unknown code is given when the lookup does not assert
parseVMPDataCodeLenient(code) ==
    Ok(IF code \in DOMAIN VMP_DATA_FIELD_LIST THEN VMP_DATA_FIELD_LIST[code]
       ELSE VMP_DATA_FIELD_LIST[6])

\* assert code in VMP_DATA_FIELD_LIST; return VMP_DATA_FIELD_LIST[code]
parseVMPDataCode(code) ==
    IF code \in DOMAIN VMP_DATA_FIELD_LIST THEN Ok(VMP_DATA_FIELD_LIST[code]) ELSE Fail

\* the offset the constructor stores in self.ptr
AllVersionsShort(v, size, n, itemsize) == size - n * itemsize - itemsize

DataOffset(v, size, n, itemsize) ==
    IF v = 1101 THEN size - n * itemsize - itemsize ELSE size - n * itemsize

\* parse(): record by record, column by column, through the cursor self.ptr.
\* i = 0 is the read of the flags byte; the result carries the cursor where
\* the walk stopped.
RECURSIVE ParseWalk(_, _, _, _, _, _, _, _)
ParseWalk(d, cols, flagged, n, idx, i, st, acc) ==
    IF idx = n THEN [ok |-> TRUE, ptr |-> st.ptr, cols |-> acc]
    ELSE IF i = 0 THEN
        IF flagged THEN
            LET f == getFieldFlat(d, st.ptr, "<B", BYTE_SIZE)
            IN  IF ~f.ok THEN [ok |-> FALSE, ptr |-> st.ptr, cols |-> acc]
                ELSE ParseWalk(d, cols, flagged, n, idx, 1,
                               [ptr |-> st.ptr + BYTE_SIZE, flags |-> f.val], acc)
        ELSE ParseWalk(d, cols, flagged, n, idx, 1, st, acc)
    ELSE IF i > Len(cols) THEN ParseWalk(d, cols, flagged, n, idx + 1, 0, st, acc)
    ELSE IF IsFlagCol(cols[i]) THEN
        ParseWalk(d, cols, flagged, n, idx, i + 1, st,
                  [acc EXCEPT ![i] = Append(@, getBitField(st.flags, cols[i].fbit, cols[i].fsize))])
    ELSE
        LET r == getFieldFlat(d, st.ptr, cols[i].fmt, cols[i].size)
        IN  IF ~r.ok THEN [ok |-> FALSE, ptr |-> st.ptr, cols |-> acc]
            ELSE ParseWalk(d, cols, flagged, n, idx, i + 1,
                           [st EXCEPT !.ptr = @ + cols[i].size],
                           [acc EXCEPT ![i] = Append(@, r.val)])

parse(d, cols, flagged, n, p) ==
    ParseWalk(d, cols, flagged, n, 0, 0, [ptr |-> p, flags |-> 0], [i \in DOMAIN cols |-> <<>>])

\* parseVec(): np.frombuffer over the packed record dtype, count = numDataPts,
\* offset = self.ptr; the cursor is not moved
FromBufferOk(d, itemsize, n, offset) ==
    /\ itemsize > 0
    /\ offset >= 0
    /\ offset <= Len(d)
    /\ n * itemsize <= Len(d) - offset

parseVec(d, cols, n, p) ==
    LET itemsize == RecordItemsize(cols)
        Cell(i, idx) ==
            IF IsFlagCol(cols[i])
            THEN getBitField(d[p + idx * itemsize + 1], cols[i].fbit, cols[i].fsize)
            ELSE getFieldFlat(d, p + idx * itemsize + FieldOffset(cols, i),
                              cols[i].fmt, cols[i].size).val
    IN  IF ~FromBufferOk(d, itemsize, n, p) THEN [ok |-> FALSE, ptr |-> p, cols |-> <<>>]
        ELSE [ok |-> TRUE, ptr |-> p,
              cols |-> [i \in DOMAIN cols |-> [k \in 1..n |-> Cell(i, k - 1)]]]

\* parseMP(): the offsets of the columns inside a record, as the loop computes
\* them (blockOffsets[i - 1] is the last element when i = 0), then one
\* fixed-offset read per (column, record index)
RECURSIVE BlockOffsetsLoop(_, _, _, _)
BlockOffsetsLoop(cols, i, bo, szPrev) ==
    IF i = Len(cols) THEN [blockOffsets |-> bo, szPrev |-> szPrev]
    ELSE IF IsFlagCol(cols[i + 1]) THEN BlockOffsetsLoop(cols, i + 1, bo, szPrev)
    ELSE BlockOffsetsLoop(cols, i + 1,
                          [bo EXCEPT ![i + 1] = PyIndex(bo, i - 1) + szPrev],
                          cols[i + 1].size)

BlockOffsets(cols, flagged) ==
    BlockOffsetsLoop(cols, 0, [i \in DOMAIN cols |-> 0], IF flagged THEN BYTE_SIZE ELSE 0)

parseMP(d, cols, flagged, n, p) ==
    LET lay == BlockOffsets(cols, flagged)
        dataBlockSize == PyIndex(lay.blockOffsets, -1) + lay.szPrev
        Cell(i, idx) ==
            IF IsFlagCol(cols[i])
            THEN getBitFieldFlat(d, p + idx * dataBlockSize, cols[i].fbit, cols[i].fsize)
            ELSE getFieldFlat(d, p + idx * dataBlockSize + lay.blockOffsets[i],
                              cols[i].fmt, cols[i].size)
        allOk == \A i \in DOMAIN cols : \A idx \in 0..(n - 1) : Cell(i, idx).ok
    IN  IF ~allOk THEN [ok |-> FALSE, ptr |-> p, cols |-> <<>>]
        ELSE [ok |-> TRUE, ptr |-> p + n * dataBlockSize,
              cols |-> [i \in DOMAIN cols |-> [k \in 1..n |-> Cell(i, k - 1).val]]]

AsTable(r) == IF r.ok THEN Table(r.cols) ELSE Raised

---------------------------------------------------------------------------
(* The MPR data sections the model decodes *)

\* versions handed to the constructor: the accepted ones and one that is not
Versions == ACCEPTED_VERSIONS \cup {1000}

\* column codes the files draw from: two bit-fields, a 4-byte and a 2-byte column
ColCodes == {1, 2, 6, 131}

CodeLists ==
    {s \in SeqsUpTo(ColCodes, MaxCols) :
        /\ Len(s) >= 1
        /\ \A i, j \in DOMAIN s : i # j => s[i] # s[j]}

\* the byte a file holds at absolute position p of the payload body
BodyByte(p) == (37 * p + 11) % 256

RECURSIVE EncodeCodes(_)
EncodeCodes(codes) ==
    IF codes = <<>> THEN <<>> ELSE LEBytes(Head(codes), SHORT_SIZE) \o EncodeCodes(Tail(codes))

\* a payload: the header, pad filler bytes, then the records (version 1101
\* leaves room for one record more than it declares)
PayloadHead(v, codes, n) ==
    LEBytes(n, LONG_SIZE) \o LEBytes(Len(codes), NumColsSize(v)) \o EncodeCodes(codes)

MakePayload(v, codes, n, pad) ==
    LET head == PayloadHead(v, codes, n)
        known == SelectSeq(codes, LAMBDA c : c \in DOMAIN VMP_DATA_FIELD_LIST)
        cols == [i \in DOMAIN known |-> VMP_DATA_FIELD_LIST[known[i]]]
        body == pad + (n + (IF v = 1101 THEN 1 ELSE 0)) * RecordItemsize(cols)
    IN  head \o [k \in 1..body |-> BodyByte(Len(head) + k - 1)]

\* a payload cut short of the records it declares: the header, then pad
\* bytes only
TruncatedPayload(v, codes, n, pad) ==
    LET head == PayloadHead(v, codes, n)
    IN  head \o [k \in 1..pad |-> BodyByte(Len(head) + k - 1)]

IdleMPR ==
    /\ softVersion = 0
    /\ data = <<>>
    /\ dataSize = 0
    /\ numDataPts = 0
    /\ colList = <<>>
    /\ hasFlags = FALSE
    /\ ptr = 0
    /\ startOffs = 0
    /\ mprPc = "idle"
    /\ calls = 0
    /\ table = NotRun
    /\ outSeq = NotRun
    /\ outVec = NotRun
    /\ outMP = NotRun

StartMPR ==
    /\ softVersion \in Versions
    /\ \E codes \in CodeLists, n \in 0..MaxRecs, pad \in 0..MaxPad :
            \/ data = MakePayload(softVersion, codes, n, pad)
            \/ data = TruncatedPayload(softVersion, codes, n, pad)
    /\ dataSize = Len(data)
    /\ numDataPts = 0
    /\ colList = <<>>
    /\ hasFlags = FALSE
    /\ ptr = 0
    /\ startOffs = 0
    /\ mprPc = "raw"
    /\ calls = 0
    /\ table = NotRun
    /\ outSeq = NotRun
    /\ outVec = NotRun
    /\ outMP = NotRun

\* the section_sn / section_ln arguments of VMPsection.__init__ (None, None
\* unless a subclass passes its names)
NoNames == [given |-> FALSE, sn |-> <<>>, ln |-> <<>>]
Names(sn, ln) == [given |-> TRUE, sn |-> sn, ln |-> ln]

\* str(bs, "utf-8") of bytes below 0x80 (the date strings drawn hold no other)
Utf8(bs) == IF \A k \in DOMAIN bs : bs[k] < 128 THEN Ok(bs) ELSE Fail

\* one read of VMPsection.__init__: the function called, its literal or
\* its format and size, and the attribute the value is kept in
Read(op, lit, fmt, size, keep) == [op |-> op, lit |-> lit, fmt |-> fmt, size |-> size, keep |-> keep]

\* the reads VMPsection.__init__ makes before the payload, in order
SectionReads(version, names) ==
    <<Read("checkField", HEADER, "", 0, "none")>>
        \o (IF names.given
            THEN <<Read("checkField", names.sn, "", 0, "none"),
                   Read("checkField", names.ln, "", 0, "none")>>
            ELSE <<Read("getRaw", <<>>, "", MODULE_SN_SIZE, "none"),
                   Read("getRaw", <<>>, "", MODULE_LN_SIZE, "none")>>)
        \o (IF version = 1152
            THEN <<Read("getField", <<>>, UINT32[1], UINT32[2], "none"),
                   Read("getField", <<>>, UINT64[1], UINT64[2], "dataSize")>>
            ELSE <<Read("getField", <<>>, UINT32[1], UINT32[2], "dataSize")>>)
        \o <<Read("getField", <<>>, UINT32[1], UINT32[2], "secVersion"),
             Read("str", <<>>, "", DATE_SIZE, "date")>>

SectionStep(datablock, rd, p) ==
    CASE rd.op = "checkField" -> checkField(datablock, p, rd.lit)
      [] rd.op = "getRaw" -> getRaw(datablock, p, rd.size)
      [] rd.op = "getField" -> getField(datablock, p, rd.fmt, rd.size)
      [] rd.op = "str" -> LET r == getRaw(datablock, p, rd.size)
                          IN  SeqRead(Utf8(r.val), r.ptr)

\* the reads made one after the other through the cursor; reads counts the
\* reads begun
RECURSIVE SectionWalk(_, _, _, _)
SectionWalk(datablock, reads, k, st) ==
    IF k > Len(reads) THEN st
    ELSE LET r == SectionStep(datablock, reads[k], st.ptr)
         IN  IF ~r.ok THEN [st EXCEPT !.ok = FALSE, !.reads = k]
             ELSE CHOOSE res \in
                    {SectionWalk(datablock, reads, k + 1, nxt) :
                        nxt \in {[ok |-> TRUE, ptr |-> r.ptr, reads |-> k,
                                  kept |-> IF reads[k].keep = "none" THEN st.kept
                                           ELSE [st.kept EXCEPT ![reads[k].keep] = r.val]]}} : TRUE

SectionRaised(reads) ==
    [ok |-> FALSE, reads |-> reads, dataSize |-> 0, secVersion |-> 0,
     date |-> <<>>, data |-> <<>>, end |-> 0]

\* VMPsection.__init__: the version assertion, the reads before the payload,
\* then self.data = getRaw(datablock, ptr, self.dataSize)
VMPsection(datablock, version, names) ==
    IF version \notin ACCEPTED_VERSIONS THEN SectionRaised(0)
    ELSE
        LET st == SectionWalk(datablock, SectionReads(version, names), 1,
                              [ok |-> TRUE, ptr |-> 0, reads |-> 0,
                               kept |-> [dataSize |-> 0, secVersion |-> 0, date |-> <<>>]])
            payload == getRaw(datablock, st.ptr, st.kept.dataSize)
        IN  IF ~st.ok THEN SectionRaised(st.reads)
            ELSE [ok |-> TRUE, reads |-> st.reads + 1, dataSize |-> st.kept.dataSize,
                  secVersion |-> st.kept.secVersion, date |-> st.kept.date,
                  data |-> payload.val, end |-> payload.ptr]

\* VMPdata.__init__ after the section framing: the reads of the payload's
\* header, the record dtype and the record array's start.  Reading stops at
\* the first code parseVMPDataCode refuses.
VMPdataFields(d, v, size) ==
    LET n == getFieldFlat(d, 0, "<I", LONG_SIZE)
        nc == getFieldFlat(d, LONG_SIZE, NumColsFmt(v), NumColsSize(v))
        codes == ReadCodes(d, v, IF nc.ok THEN nc.val ELSE 0)
        parsed == [i \in DOMAIN codes |->
                      IF codes[i].ok THEN parseVMPDataCode(codes[i].val) ELSE Fail]
        known == \A i \in DOMAIN codes : parsed[i].ok
        cols == [i \in DOMAIN codes |-> parsed[i].val]
        \* np.dtype refuses a record spec that names a field twice
        dtypeOk == \A i, j \in DOMAIN codes :
                     (i # j /\ ~IsFlagCol(cols[i]) /\ ~IsFlagCol(cols[j]))
                         => cols[i].name # cols[j].name
        \* the codes read when the loop ended or raised
        codesRead == IF known THEN Len(codes)
                     ELSE CHOOSE i \in DOMAIN codes :
                              ~parsed[i].ok /\ \A j \in 1..(i - 1) : parsed[j].ok
    IN  IF n.ok /\ nc.ok /\ known /\ dtypeOk
        THEN [ok |-> TRUE, numDataPts |-> n.val, colList |-> cols,
              hasFlags |-> (\E i \in DOMAIN cols : IsFlagCol(cols[i])),
              ptr |-> DataOffset(v, size, n.val, RecordItemsize(cols)),
              codesRead |-> codesRead]
        ELSE [ok |-> FALSE, numDataPts |-> 0, colList |-> <<>>, hasFlags |-> FALSE, ptr |-> 0,
              codesRead |-> IF n.ok /\ nc.ok THEN codesRead ELSE 0]

\* VMPdata(datablock, version): the section framing has delivered dataSize and
\* data; the constructor checks the version, reads the payload's header,
\* builds the record dtype and stores the record array's start in self.ptr
VMPdataInit ==
    /\ mprPc \in {"raw", "ready"}
    /\ LET f == VMPdataFields(data, softVersion, dataSize)
       IN  IF softVersion \in ACCEPTED_VERSIONS /\ f.ok
           THEN /\ numDataPts' = f.numDataPts
                /\ colList' = f.colList
                /\ hasFlags' = f.hasFlags
                /\ ptr' = f.ptr
                /\ startOffs' = ptr'
                /\ mprPc' = "ready"
           ELSE /\ mprPc' = "failed"
                /\ UNCHANGED <<numDataPts, colList, hasFlags, ptr, startOffs>>
    /\ calls' = 0
    /\ table' = NotRun
    /\ UNCHANGED <<softVersion, data, dataSize, outSeq, outVec, outMP>>
    /\ UNCHANGED notMPR

\* ---- the section blocks constructed
\* a code the catalog does not hold
UNKNOWN_CODE == 999

\* the column code lists of the data sections: known codes, and an unknown
\* code first, in the middle and last
SecCodeLists ==
    {<<6>>, <<1, 6>>, <<UNKNOWN_CODE, 6>>, <<6, UNKNOWN_CODE, 131>>, <<6, UNKNOWN_CODE, UNKNOWN_CODE>>}

\* b"01/01/20"
SecDate == <<48, 49, 47, 48, 49, 47, 50, 48>>

\* the block of one section as version v lays it out: declared is the
\* payload length the block announces
MakeSection(names, v, payload, declared) ==
    HEADER \o names.sn \o names.ln
        \o (IF v = 1152 THEN <<255, 255, 255, 127>> \o LEBytes(declared, LLONG_SIZE)
            ELSE LEBytes(declared, LONG_SIZE))
        \o LEBytes(0, LONG_SIZE) \o SecDate \o payload

NoSection == [run |-> FALSE, ok |-> FALSE, kind |-> "none", reads |-> 0, codesRead |-> 0, end |-> 0]
Constructed(kind, sec, codesRead, ok) ==
    [run |-> TRUE, ok |-> ok, kind |-> kind, reads |-> sec.reads, codesRead |-> codesRead,
     end |-> IF ok THEN sec.end ELSE 0]

IdleSection ==
    /\ secBlock = <<>>
    /\ secOut = NoSection

\* a settings, a log or a data section, announcing its payload length or up
\* to MaxExcess bytes more than the block holds
StartSection ==
    /\ softVersion \in Versions
    /\ \E excess \in 0..MaxExcess :
        \/ \E names \in {Names(VMP_SET_SN, VMP_SET_LN), Names(VMP_LOG_SN, VMP_LOG_LN)} :
                secBlock = MakeSection(names, softVersion, <<1, 2, 3>>, 3 + excess)
        \/ \E codes \in SecCodeLists, n \in 0..MaxRecs :
                LET payload == MakePayload(softVersion, codes, n, 0)
                IN  secBlock = MakeSection(Names(VMP_DATA_SN, VMP_DATA_LN), softVersion,
                                           payload, Len(payload) + excess)
    /\ secOut = NoSection
    /\ data = <<>>
    /\ dataSize = 0
    /\ numDataPts = 0
    /\ colList = <<>>
    /\ hasFlags = FALSE
    /\ ptr = 0
    /\ startOffs = 0
    /\ mprPc = "raw"
    /\ calls = 0
    /\ table = NotRun
    /\ outSeq = NotRun
    /\ outVec = NotRun
    /\ outMP = NotRun

\* a constructor that sets VMPsection's attributes only
SectionFrame(kind, names) ==
    /\ mprPc = "raw"
    /\ LET sec == VMPsection(secBlock, softVersion, names)
       IN  /\ secOut' = Constructed(kind, sec, 0, sec.ok)
           /\ IF sec.ok
              THEN /\ data' = sec.data
                   /\ dataSize' = sec.dataSize
                   /\ mprPc' = "section"
              ELSE /\ mprPc' = "failed"
                   /\ UNCHANGED <<data, dataSize>>
    /\ UNCHANGED <<softVersion, numDataPts, colList, hasFlags, ptr, startOffs, calls, table,
                   outSeq, outVec, outMP, secBlock>>
    /\ UNCHANGED notSection

\* VMPsection(datablock, version)
NewVMPsection == SectionFrame("section", NoNames)

\* VMPsettings(datablock, version)
NewVMPsettings == SectionFrame("settings", Names(VMP_SET_SN, VMP_SET_LN))

\* VMPlog(datablock, version)
NewVMPlog == SectionFrame("log", Names(VMP_LOG_SN, VMP_LOG_LN))

\* VMPdata(datablock, version): the framing, then the payload's header
NewVMPdata ==
    /\ mprPc = "raw"
    /\ LET sec == VMPsection(secBlock, softVersion, Names(VMP_DATA_SN, VMP_DATA_LN))
           f == VMPdataFields(sec.data, softVersion, sec.dataSize)
       IN  /\ secOut' = Constructed("data", sec, IF sec.ok THEN f.codesRead ELSE 0,
                                     sec.ok /\ f.ok)
           /\ IF sec.ok /\ f.ok
              THEN /\ data' = sec.data
                   /\ dataSize' = sec.dataSize
                   /\ numDataPts' = f.numDataPts
                   /\ colList' = f.colList
                   /\ hasFlags' = f.hasFlags
                   /\ ptr' = f.ptr
                   /\ startOffs' = ptr'
                   /\ mprPc' = "ready"
              ELSE /\ mprPc' = "failed"
                   /\ UNCHANGED <<data, dataSize, numDataPts, colList, hasFlags, ptr, startOffs>>
    /\ UNCHANGED <<softVersion, calls, table, outSeq, outVec, outMP, secBlock>>
    /\ UNCHANGED notSection

\* getDataFrame(mp = <anything else>): parse()
GetDataFrameSeq ==
    /\ mprPc = "ready"
    /\ calls < MaxCalls
    /\ LET r == parse(data, colList, hasFlags, numDataPts, ptr)
       IN  /\ ptr' = r.ptr
           /\ table' = AsTable(r)
           /\ outSeq' = IF calls = 0 THEN AsTable(r) ELSE outSeq
    /\ calls' = calls + 1
    /\ UNCHANGED <<softVersion, data, dataSize, numDataPts, colList, hasFlags,
                   startOffs, mprPc, outVec, outMP>>
    /\ UNCHANGED notMPR

\* getDataFrame(mp = False) and getDataFrame(mp = "Vec"): parseVec()
GetDataFrameVec ==
    /\ mprPc = "ready"
    /\ calls < MaxCalls
    /\ LET r == parseVec(data, colList, numDataPts, ptr)
       IN  /\ ptr' = r.ptr
           /\ table' = AsTable(r)
           /\ outVec' = IF calls = 0 THEN AsTable(r) ELSE outVec
    /\ calls' = calls + 1
    /\ UNCHANGED <<softVersion, data, dataSize, numDataPts, colList, hasFlags,
                   startOffs, mprPc, outSeq, outMP>>
    /\ UNCHANGED notMPR

\* getDataFrame(mp = "MP"): parseMP()
GetDataFrameMP ==
    /\ mprPc = "ready"
    /\ calls < MaxCalls
    /\ LET r == parseMP(data, colList, hasFlags, numDataPts, ptr)
       IN  /\ ptr' = r.ptr
           /\ table' = AsTable(r)
           /\ outMP' = IF calls = 0 THEN AsTable(r) ELSE outMP
    /\ calls' = calls + 1
    /\ UNCHANGED <<softVersion, data, dataSize, numDataPts, colList, hasFlags,
                   startOffs, mprPc, outSeq, outVec>>
    /\ UNCHANGED notMPR

---------------------------------------------------------------------------
(* FFPE/Neware/NDAXff.py: paged streams *)

NDAX_PAGE_BITMAP_SZ == 128
NDAX_PAGE_DATA_SZ == 3960
NDAX_STEP_INFO_PAGENUM == 8
NDAX_DATA_INFO_PAGENUM == 2
NDAX_RUN_INFO_PAGENUM == 19

\* itemsize of the record dtypes
NDAX_DATA_INFO_ITEMSIZE == 8
NDAX_STEP_INFO_ITEMSIZE == 37
NDAX8_STEP_INFO_ITEMSIZE == 100
NDAX_RUN_INFO_ITEMSIZE == 47
NDAX8_RUN_INFO_ITEMSIZE == 100

\* the bits of a page's bitmap: 8 per bitmap byte
BitmapBits == 0..(8 * NDAX_PAGE_BITMAP_SZ - 1)

\* A page is [type, count, bitmap, no, edits, crc32]: bitmap is the set of
\* the bit positions that are set (np.unpackbits, bitorder little: bit j is
\* slot j); no is the page's position in the stream and stands for its 3960
\* payload bytes, edits maps the payload offsets whose byte differs from
\* that payload to the byte found there; crc32 is the trailer's 4 bytes.
\* The record np.frombuffer makes of the itemsize bytes at slot j of page
\* no is written <<no, j>>.
RecordAt(f, j) == <<f.no, j>>

\* byte k of the payload page no was written with
PayloadByte(no, k) == (no + k) % 256

DataByte(f, k) == IF k \in DOMAIN f.edits THEN f.edits[k] ELSE PayloadByte(f.no, k)

\* byte k of the bitmap field: bit j of the bitmap is bit j % 8 of byte j \div 8
BitmapByte(f, k) ==
    SumSeq([b \in 1..8 |-> IF (8 * k + b - 1) \in f.bitmap THEN Pow(2, b - 1) ELSE 0])

NDAX_PAGE_HEAD_SZ == 2 * SHORT_SIZE + NDAX_PAGE_BITMAP_SZ + NDAX_PAGE_DATA_SZ

\* byte k of f.tobytes(): the fields of NDAX_PAGE_INFO in order, little endian
PageByte(f, k) ==
    IF k < SHORT_SIZE THEN LEBytes(f.type, SHORT_SIZE)[k + 1]
    ELSE IF k < 2 * SHORT_SIZE THEN LEBytes(f.count, SHORT_SIZE)[k - SHORT_SIZE + 1]
    ELSE IF k < 2 * SHORT_SIZE + NDAX_PAGE_BITMAP_SZ THEN BitmapByte(f, k - 2 * SHORT_SIZE)
    ELSE IF k < NDAX_PAGE_HEAD_SZ THEN DataByte(f, k - 2 * SHORT_SIZE - NDAX_PAGE_BITMAP_SZ)
    ELSE f.crc32[k - NDAX_PAGE_HEAD_SZ + 1]

tobytes(f) == <<>> \o [i \in 1..(NDAX_PAGE_HEAD_SZ + LONG_SIZE) |-> PageByte(f, i - 1)]

\* ---- the pages of the streams decoded
\* record sizes of the requests made: the measurement records and a
\* version-8 step / run-info record
RecordSizes == {NDAX_DATA_INFO_ITEMSIZE, NDAX8_RUN_INFO_ITEMSIZE}

Lead(k) == 0..(k - 1)

\* bitmaps of a page holding num_items slots: the first k slots populated,
\* all slots populated, a skipped slot before the last populated one, and a
\* bit set beyond the slots
Bitmaps(num_items) ==
    {Lead(k) : k \in 0..MaxLead} \cup {Lead(num_items)}
        \cup {Lead(k) \ {k - 2} : k \in 2..MaxLead}
        \cup {Lead(1) \cup {num_items}}

\* what may be wrong with one page of a stream
Defects == {"none", "count", "crc32", "type"}

PageBody(no, bitmap, num_items, defect) ==
    [type |-> IF defect = "type" THEN NDAX_RUN_INFO_PAGENUM ELSE NDAX_DATA_INFO_PAGENUM,
     count |-> Cardinality(bitmap \cap Lead(num_items)) + (IF defect = "count" THEN 1 ELSE 0),
     bitmap |-> bitmap,
     no |-> no,
     edits |-> <<>>,
     crc32 |-> <<0, 0, 0, 0>>]

\* the pages a stream is written from, trailer left blank
PageBodies ==
    UNION {{PageBody(no, bitmap, NDAX_PAGE_DATA_SZ \div size, defect) :
                no \in 1..MaxPages, bitmap \in Bitmaps(NDAX_PAGE_DATA_SZ \div size),
                defect \in Defects} : size \in RecordSizes}

\* ---- zlib.crc32: CRC-32, reflected polynomial 0xEDB88320, initial value and
\* final xor 0xFFFFFFFF.  A 32-bit word is its 4 bytes, least significant
\* first (the order of the trailer's bytes in the page).
RECURSIVE XorBits(_, _, _)
XorBits(a, b, n) ==
    IF n = 0 THEN 0
    ELSE ((a + b) % 2) + 2 * XorBits(a \div 2, b \div 2, n - 1)

XorTable == <<>> \o [k \in 1..65536 |-> XorBits((k - 1) \div 256, (k - 1) % 256, 8)]

Xor8(a, b) == XorTable[a * 256 + b + 1]

XorWord(u, v) == <<Xor8(u[1], v[1]), Xor8(u[2], v[2]), Xor8(u[3], v[3]), Xor8(u[4], v[4])>>

ShiftRight1(u) ==
    <<(u[1] \div 2) + 128 * (u[2] % 2), (u[2] \div 2) + 128 * (u[3] % 2),
      (u[3] \div 2) + 128 * (u[4] % 2), u[4] \div 2>>

ShiftRight8(u) == <<u[2], u[3], u[4], 0>>

CRC_POLY == <<32, 131, 184, 237>>

RECURSIVE CrcTableEntry(_, _)
CrcTableEntry(c, n) ==
    IF n = 0 THEN c
    ELSE CrcTableEntry(IF c[1] % 2 = 1 THEN XorWord(ShiftRight1(c), CRC_POLY)
                       ELSE ShiftRight1(c), n - 1)

CrcTable == <<>> \o [b \in 1..256 |-> CrcTableEntry(<<b - 1, 0, 0, 0>>, 8)]

CrcStep(c, byte) == XorWord(CrcTable[Xor8(c[1], byte) + 1], ShiftRight8(c))

\* the register after bytes lo..hi of bs, halving the range so that the
\* evaluation stays shallow
RECURSIVE CrcRange(_, _, _, _)
CrcRange(c, bs, lo, hi) ==
    IF lo > hi THEN c
    ELSE IF lo = hi THEN CrcStep(c, bs[lo])
    ELSE LET mid == (lo + hi) \div 2
         IN  CHOOSE r \in {CrcRange(left, bs, mid + 1, hi) :
                              left \in {CrcRange(c, bs, lo, mid)}} : TRUE

CRC_ONES == <<255, 255, 255, 255>>

zlib_crc32(bs) == XorWord(CrcRange(CRC_ONES, bs, 1, Len(bs)), CRC_ONES)

\* zlib.crc32(f.tobytes()[: -4]); the value is looked up for the pages a
\* stream is written from, where it was computed once, and computed for
\* every other page
Crc32Known == [body \in PageBodies |-> zlib_crc32(PySlice(tobytes(body), 0, -4))] @@ <<>>

Crc32(f) ==
    LET body == [f EXCEPT !.crc32 = <<0, 0, 0, 0>>]
    IN  IF body \in DOMAIN Crc32Known THEN Crc32Known[body]
        ELSE zlib_crc32(PySlice(tobytes(f), 0, -4))

isPageValidShortHead(f) == zlib_crc32(PySlice(tobytes(f), 0, -8)) = f.crc32

isPageValid(f) == Crc32(f) = f.crc32

NoExtract == [run |-> FALSE, ok |-> FALSE, records |-> <<>>, validity |-> <<>>]
ExtractRaised == [run |-> TRUE, ok |-> FALSE, records |-> <<>>, validity |-> <<>>]
Extracted(rs, vs) == [run |-> TRUE, ok |-> TRUE, records |-> rs, validity |-> vs]

\* the slice bound extractAllFromPage cuts the last page at:
\* parsed_contents[: valid_idcs[-1][0]]
LastPageCut(lastValid) == lastValid

\* np.sum(valid): the set bits among the first num_items bits
ValidCount(f, num_items) == Cardinality(f.bitmap \cap 0..(num_items - 1))

extractAllFromPage(f, itemsize, drop_invalid_records, last_page) ==
    LET num_items == NDAX_PAGE_DATA_SZ \div itemsize
        IsValid(j) == j \in f.bitmap
        \* the slots data[valid_bool] keeps, in order
        validSlots == SelectSeq([k \in 1..num_items |-> k - 1], IsValid)
    IN  IF ValidCount(f, num_items) # f.count THEN ExtractRaised
        ELSE IF drop_invalid_records
        THEN Extracted([k \in DOMAIN validSlots |-> RecordAt(f, validSlots[k])],
                       [k \in DOMAIN validSlots |-> TRUE])
        ELSE IF last_page
        THEN IF validSlots = <<>> THEN Extracted(<<>>, <<>>)
             ELSE LET cut == LastPageCut(validSlots[Len(validSlots)])
                  IN  Extracted([k \in 1..cut |-> RecordAt(f, k - 1)],
                                [k \in 1..cut |-> IsValid(k - 1)])
        ELSE Extracted([k \in 1..num_items |-> RecordAt(f, k - 1)],
                       [k \in 1..num_items |-> IsValid(k - 1)])

RECURSIVE ConcatRecords(_)
ConcatRecords(rs) ==
    IF rs = <<>> THEN <<>> ELSE Head(rs).records \o ConcatRecords(Tail(rs))

RECURSIVE ConcatValidity(_)
ConcatValidity(rs) ==
    IF rs = <<>> THEN <<>> ELSE Head(rs).validity \o ConcatValidity(Tail(rs))

\* step_data[step_data["type"] == type_pagenum]
PagesOfType(b, type_pagenum) == SelectSeq(b, LAMBDA f : f.type = type_pagenum)

extractAllFromBuffer(b, type_pagenum, itemsize, validate_pages, drop_invalid_records) ==
    LET req_type_pages == PagesOfType(b, type_pagenum)
        n == Len(req_type_pages)
        page_results ==
            [k \in 1..n |-> extractAllFromPage(req_type_pages[k], itemsize,
                                               drop_invalid_records, k = n)]
    IN  IF Len(b) = 0 THEN Extracted(<<>>, <<>>)
        ELSE IF validate_pages /\ \E k \in 1..n : ~isPageValid(req_type_pages[k])
        THEN ExtractRaised
        \* req_type_pages[-1] of an empty selection raises
        ELSE IF n = 0 THEN ExtractRaised
        ELSE IF \E k \in 1..n : ~page_results[k].ok THEN ExtractRaised
        ELSE Extracted(ConcatRecords(page_results), ConcatValidity(page_results))

\* ---- the measurement rows of NDAXff.fromFile
NoFrame == [made |-> FALSE, rows |-> <<>>]
Frame(rows) == [made |-> TRUE, rows |-> rows]

\* the rows numbered after the skipped ones are dropped
DataFrameRowsRenumbered(data_data, valid_data) ==
    LET kept == SelectSeq([k \in DOMAIN data_data |-> k], LAMBDA k : valid_data[k])
    IN  [r \in DOMAIN kept |-> [record_no |-> r, data |-> data_data[kept[r]]]]

\* dataframe["record_no"] = np.arange(1, data_data.shape[0] + 1), then
\* dataframe.drop(np.argwhere(~valid_data)[: , 0])
DataFrameRows(data_data, valid_data) ==
    LET record_no == [k \in DOMAIN data_data |-> k]
        kept == SelectSeq(record_no, LAMBDA no : valid_data[no])
    IN  [r \in DOMAIN kept |-> [record_no |-> kept[r], data |-> data_data[kept[r]]]]

---------------------------------------------------------------------------
(* The paged streams the model decodes *)

MakePage(no, bitmap, num_items, defect) ==
    LET body == PageBody(no, bitmap, num_items, defect)
    IN  [body EXCEPT !.crc32 = IF defect = "crc32"
                               THEN [Crc32(body) EXCEPT ![1] = (@ + 1) % 256]
                               ELSE Crc32(body)]

IdlePage ==
    /\ pristine = <<>>
    /\ pageValid = <<>>
    /\ buf = <<>>
    /\ reqSize = 0
    /\ dropInvalid = FALSE
    /\ validatePages = FALSE
    /\ pageOut = NoExtract
    /\ pageFrame = NoFrame
    /\ pristine = buf
    /\ pageValid = <<>>

StartPage ==
    /\ reqSize \in RecordSizes
    /\ \E n \in 0..MaxPages :
        \E bitmaps \in [1..n -> Bitmaps(NDAX_PAGE_DATA_SZ \div reqSize)] :
        \E bad \in 0..n, defect \in Defects :
            /\ (bad = 0) = (defect = "none")
            /\ buf = [k \in 1..n |-> MakePage(k, bitmaps[k], NDAX_PAGE_DATA_SZ \div reqSize,
                                              IF k = bad THEN defect ELSE "none")]
    /\ dropInvalid = FALSE
    /\ validatePages = FALSE
    /\ pageOut = NoExtract
    /\ pageFrame = NoFrame
    /\ pristine = buf
    /\ pageValid = <<>>

\* the offsets at which a byte of a page is changed: the ends of the type
\* and count fields, of the bitmap and of the payload
AlterOffsets ==
    {0, 2 * SHORT_SIZE - 1, 2 * SHORT_SIZE, 2 * SHORT_SIZE + NDAX_PAGE_BITMAP_SZ - 1,
     2 * SHORT_SIZE + NDAX_PAGE_BITMAP_SZ, NDAX_PAGE_HEAD_SZ - 1}

SetSeqByte(bs, k, to) == [bs EXCEPT ![k + 1] = to]

\* the page np.frombuffer makes of the bytes of f with the byte at offset
\* at (before the trailer) set to the byte to
SetPageByte(f, at, to) ==
    IF at < SHORT_SIZE
    THEN [f EXCEPT !.type = LEValue(SetSeqByte(LEBytes(f.type, SHORT_SIZE), at, to))]
    ELSE IF at < 2 * SHORT_SIZE
    THEN [f EXCEPT !.count =
              LEValue(SetSeqByte(LEBytes(f.count, SHORT_SIZE), at - SHORT_SIZE, to))]
    ELSE IF at < 2 * SHORT_SIZE + NDAX_PAGE_BITMAP_SZ
    THEN LET k == at - 2 * SHORT_SIZE
         IN  [f EXCEPT !.bitmap = (@ \ (8 * k)..(8 * k + 7))
                            \cup {8 * k + b : b \in {c \in 0..7 : getBitField(to, c, 1) = 1}}]
    ELSE LET k == at - 2 * SHORT_SIZE - NDAX_PAGE_BITMAP_SZ
         IN  [f EXCEPT !.edits = (k :> to) @@ @]

\* a stream of MaxPages pages written without defect, one byte of its first
\* or of its last page changed afterwards
StartCrc ==
    /\ reqSize \in RecordSizes
    /\ \E which \in {1, MaxPages}, at \in AlterOffsets, delta \in 1..MaxDelta :
        /\ pristine = [k \in 1..MaxPages |->
                          MakePage(k, Lead(MaxLead), NDAX_PAGE_DATA_SZ \div reqSize, "none")]
        /\ buf = [pristine EXCEPT ![which] =
                      SetPageByte(@, at, (PageByte(@, at) + delta) % 256)]
    /\ dropInvalid = FALSE
    /\ validatePages = FALSE
    /\ pageOut = NoExtract
    /\ pageFrame = NoFrame
    /\ pageValid = <<>>

\* isPageValid(f) for each page f of the stream
CallIsPageValid ==
    /\ pageValid = <<>>
    /\ buf # <<>>
    /\ pageValid' = [k \in 1..Len(buf) |-> isPageValid(buf[k])]
    /\ UNCHANGED <<buf, reqSize, dropInvalid, validatePages, pageOut, pageFrame, pristine>>
    /\ UNCHANGED notPage

\* extractAllFromBuffer(buf, NDAX_DATA_INFO_PAGENUM, req_type, validate_pages,
\* drop_invalid_records)
ExtractAllFromBuffer ==
    /\ ~pageOut.run
    /\ \E validate \in BOOLEAN, drop \in BOOLEAN :
            /\ validatePages' = validate
            /\ dropInvalid' = drop
            /\ pageOut' = extractAllFromBuffer(buf, NDAX_DATA_INFO_PAGENUM, reqSize, validate, drop)
    /\ UNCHANGED <<buf, reqSize, pristine, pageValid, pageFrame>>
    /\ UNCHANGED notPage

\* NDAXff.fromFile, lines 305 and 309-316: data.ndc is extracted with
\* drop_invalid_records = False, the rows are numbered and the skipped ones
\* dropped
NdaxDataFrame ==
    /\ ~pageOut.run
    /\ reqSize = NDAX_DATA_INFO_ITEMSIZE
    /\ validatePages' = TRUE
    /\ dropInvalid' = FALSE
    /\ pageOut' = extractAllFromBuffer(buf, NDAX_DATA_INFO_PAGENUM, reqSize, TRUE, FALSE)
    /\ pageFrame' = IF pageOut'.ok THEN Frame(DataFrameRows(pageOut'.records, pageOut'.validity))
                    ELSE NoFrame
    /\ UNCHANGED <<buf, reqSize, pristine, pageValid>>
    /\ UNCHANGED notPage

---------------------------------------------------------------------------
(* FFPE/Util/common.py and FFPE/Neware/constants.py: step reconstruction.  *)
(* An array is a sequence; the indices the code works with are 0-based, so *)
(* index i of an array a is a[i + 1].                                      *)

\* np.where(np.diff(step_series) != 0)[0]: the i with series[i + 1] # series[i]
DiffNonZero(step_series) ==
    SelectSeq([k \in 1..(Len(step_series) - 1) |-> k - 1],
              LAMBDA i : step_series[i + 2] # step_series[i + 1])

\* common.findStepChanges
findStepChanges(step_series) ==
    <<0>> \o [k \in DOMAIN DiffNonZero(step_series) |-> DiffNonZero(step_series)[k] + 1]

\* the index of the first record of each step, record 0 included
FirstRecordsOfSteps(step_series) ==
    <<0>> \o [k \in DOMAIN DiffNonZero(step_series) |-> DiffNonZero(step_series)[k] + 1]

\* constants.findStepChanges
constants_findStepChanges(step_series) == DiffNonZero(step_series)

\* np.searchsorted(a, v, side = "left") on a sorted array
SearchSortedLeft(a, v) == Cardinality({j \in DOMAIN a : a[j] < v})

\* np.searchsorted(a, v, side = "right") on a sorted array
SearchSortedRight(a, v) == Cardinality({j \in DOMAIN a : a[j] <= v})

convertIndicesLeft(i, change_idcs) == Cardinality({j \in DOMAIN change_idcs : change_idcs[j] < i}) - 1

\* common.convertIndices and constants.convertIndices, for one index
convertIndices(i, change_idcs) == SearchSortedRight(change_idcs, i) - 1

\* np.cumsum
CumSum(a) == [k \in DOMAIN a |-> SumSeq(SubSeq(a, 1, k))]

StepFinalsUnmasked(arr, change_idcs) ==
    [j \in DOMAIN change_idcs |-> PyIndex(arr, change_idcs[j] - 1)]

\* step_finals: the value just before each boundary, 0 where there is none
StepFinals(arr, change_idcs) ==
    [j \in DOMAIN change_idcs |->
        IF change_idcs[j] - 1 >= 0 THEN arr[change_idcs[j]] ELSE 0]

\* step_indices = convertIndices(np.arange(N), change_idcs)
StepIndices(N, change_idcs) == [k \in 1..N |-> convertIndices(k - 1, change_idcs)]

\* common.convertStepToGlobal; raises when a boundary lies past the end of
\* arr, or when step_globals is empty and is indexed
convertStepToGlobal(arr, change_idcs) ==
    LET N == Len(arr)
        n == Len(change_idcs)
        inRange == \A j \in 1..n : change_idcs[j] - 1 >= 0 => change_idcs[j] - 1 < N
        step_globals == CumSum(StepFinals(arr, change_idcs))
        step_indices == StepIndices(N, change_idcs)
    IN  IF ~inRange \/ (n = 0 /\ N > 0) THEN Fail
        ELSE Ok([k \in 1..N |-> PyIndex(step_globals, step_indices[k]) + arr[k]])

---------------------------------------------------------------------------
(* The series the model reconstructs *)

Series == {s \in SeqsUpTo(0..MaxVal, MaxLen) : Len(s) >= 1}

IsSorted(a) == \A j \in 1..(Len(a) - 1) : a[j] <= a[j + 1]

\* sorted boundary arrays over the indices of a series of length N (and N
\* itself: a boundary right after the last record)
BoundaryArrays(N) == {b \in SeqsUpTo(0..N, MaxBounds) : IsSorted(b)}

NoResult == [op |-> "none", ok |-> FALSE, val |-> <<>>]
Result(op, r) == [op |-> op, ok |-> r.ok, val |-> IF r.ok THEN r.val ELSE <<>>]

IdleAcc ==
    /\ seriesIn = <<>>
    /\ boundaries = <<>>
    /\ accOut = NoResult

StartAcc ==
    /\ seriesIn \in Series
    /\ boundaries \in BoundaryArrays(Len(seriesIn))
    /\ accOut = NoResult

\* common.convertStepToGlobal(series, boundaries)
CallConvertStepToGlobal ==
    /\ accOut.op = "none"
    /\ accOut' = Result("convertStepToGlobal", convertStepToGlobal(seriesIn, boundaries))
    /\ UNCHANGED <<seriesIn, boundaries>>
    /\ UNCHANGED notAcc

\* common.findStepChanges(series)
CallFindStepChanges ==
    /\ accOut.op = "none"
    /\ accOut' = Result("findStepChanges", Ok(findStepChanges(seriesIn)))
    /\ UNCHANGED <<seriesIn, boundaries>>
    /\ UNCHANGED notAcc

\* constants.findStepChanges(series), as NDAff.fromFile calls it
CallConstantsFindStepChanges ==
    /\ accOut.op = "none"
    /\ accOut' = Result("constants.findStepChanges", Ok(constants_findStepChanges(seriesIn)))
    /\ UNCHANGED <<seriesIn, boundaries>>
    /\ UNCHANGED notAcc

\* common.convertIndices(arr, change_idcs), arr holding the indices asked for
CallConvertIndices ==
    /\ accOut.op = "none"
    /\ accOut' = Result("convertIndices",
                        Ok([k \in DOMAIN seriesIn |-> convertIndices(seriesIn[k], boundaries)]))
    /\ UNCHANGED <<seriesIn, boundaries>>
    /\ UNCHANGED notAcc

\* constants.convertIndices(arr, change_idcs): the same expression
CallConstantsConvertIndices ==
    /\ accOut.op = "none"
    /\ accOut' = Result("constants.convertIndices",
                        Ok([k \in DOMAIN seriesIn |-> convertIndices(seriesIn[k], boundaries)]))
    /\ UNCHANGED <<seriesIn, boundaries>>
    /\ UNCHANGED notAcc

---------------------------------------------------------------------------
(* FFPE/Neware/constants.py and FFPE/Util/common.py: half-cycle boundaries *)

\* STEP_TYPES; the step type number of a name is its 0-based position
STEP_TYPES ==
    << "None", "CC_charge", "CC_discharge", "CV_charge", "Rest", "Loop", "Stop",
       "CCCV_charge", "CP_discharge", "CP_charge", "None", "None", "Pause", "None",
       "None", "Pulse", "SIM", "None", "CV_discharge", "CCCV_discharge", "Control",
       "OCV", "None", "None", "None", "CPCV_discharge", "CPCV_charge" >>

DEFAULT_HALF_STEP_TRIGGERS ==
    << "CC_charge", "CC_discharge", "CV_charge", "CCCV_charge", "CP_discharge",
       "CP_charge", "CV_discharge", "CCCV_discharge", "CPCV_discharge", "CPCV_charge" >>

\* STEP_TYPES.index(name)
StepTypeIndex(name) ==
    (CHOOSE k \in DOMAIN STEP_TYPES :
        STEP_TYPES[k] = name /\ \A l \in 1..(k - 1) : STEP_TYPES[l] # name) - 1

\* np.where(arr == trigger)[0]
HotIndices(arr, trigger) ==
    SelectSeq([k \in 1..Len(arr) |-> k - 1], LAMBDA i : arr[i + 1] = trigger)

\* np.diff(np.concatenate(([-1], hot_indices)))
HotIndicesDiff(hot_indices) ==
    [k \in DOMAIN hot_indices |->
        hot_indices[k] - (IF k = 1 THEN -1 ELSE hot_indices[k - 1])]

\* hot_indices[np.where(hot_indices_diff != 1)[0]]
TriggerChanges(arr, trigger) ==
    LET hot_indices == HotIndices(arr, trigger)
        hot_indices_diff == HotIndicesDiff(hot_indices)
        kept == SelectSeq([k \in DOMAIN hot_indices |-> k],
                          LAMBDA k : hot_indices_diff[k] # 1)
    IN  [k \in DOMAIN kept |-> hot_indices[kept[k]]]

\* np.concatenate over the per-trigger arrays collected in `changes`
RECURSIVE ConcatChanges(_, _)
ConcatChanges(arr, trigger_nums) ==
    IF trigger_nums = <<>> THEN <<>>
    ELSE TriggerChanges(arr, Head(trigger_nums)) \o ConcatChanges(arr, Tail(trigger_nums))

\* np.sort
Sort(a) == SortSeq(a, LAMBDA x, y : x < y)

\* common.findSegmentChanges; triggers are step type numbers
findSegmentChanges(arr, triggers) ==
    Sort(<<-1>> \o ConcatChanges(arr, triggers))

\* constants.findHalfCycleChanges with a list of trigger names;
\* np.concatenate raises on an empty list of arrays
findHalfCycleChanges(step_series, triggers) ==
    IF triggers = <<>> THEN Fail
    ELSE Ok(Sort(ConcatChanges(step_series,
                               [k \in DOMAIN triggers |-> StepTypeIndex(triggers[k])])))

---------------------------------------------------------------------------
(* The mode series and trigger lists the model runs the finders on *)

ModeNames == {"CC_charge", "CC_discharge", "CV_charge", "Rest"}

ModeSeries == SeqsUpTo({StepTypeIndex(m) : m \in ModeNames}, MaxSteps)

TriggerLists ==
    { <<"CC_charge">>,
      <<"CC_discharge", "CC_charge">>,
      <<"CC_charge", "CC_discharge", "CV_charge">> }

IdleHC ==
    /\ modes = <<>>
    /\ trigNames = <<>>
    /\ hcOut = NoResult

StartHC ==
    /\ modes \in ModeSeries
    /\ trigNames \in TriggerLists
    /\ hcOut = NoResult

\* constants.findHalfCycleChanges(modes, trigNames)
CallFindHalfCycleChanges ==
    /\ hcOut.op = "none"
    /\ hcOut' = Result("findHalfCycleChanges", findHalfCycleChanges(modes, trigNames))
    /\ UNCHANGED <<modes, trigNames>>
    /\ UNCHANGED notHC

\* constants.findHalfCycleChanges(modes): triggers is None
CallFindHalfCycleChangesDefault ==
    /\ hcOut.op = "none"
    /\ hcOut' = Result("findHalfCycleChanges(default)",
                       findHalfCycleChanges(modes, DEFAULT_HALF_STEP_TRIGGERS))
    /\ UNCHANGED <<modes, trigNames>>
    /\ UNCHANGED notHC

\* common.findSegmentChanges(modes, the step type numbers of trigNames)
CallFindSegmentChanges ==
    /\ hcOut.op = "none"
    /\ hcOut' = Result("findSegmentChanges",
                       Ok(findSegmentChanges(modes,
                            [k \in DOMAIN trigNames |-> StepTypeIndex(trigNames[k])])))
    /\ UNCHANGED <<modes, trigNames>>
    /\ UNCHANGED notHC

---------------------------------------------------------------------------
(* FFPE/Util/converters.py: a converted value is kept exact, as the raw     *)
(* integer and the list of constants it has been divided by.                *)

Scaled(x, divisors) == [num |-> x, den |-> divisors]

UA2MA(x) == Scaled(x.num, x.den \o <<1000>>)
TMV2V(x) == Scaled(x.num, x.den \o <<10000>>)
UW2W(x) == Scaled(x.num, x.den \o <<1000000>>)
S2HR(x) == Scaled(x.num, x.den \o <<3600>>)
UAS2MAH(x) == S2HR(UA2MA(x))
UWS2WH(x) == S2HR(UW2W(x))

---------------------------------------------------------------------------
(* FFPE/Neware/NDAff.py *)

FILE_HEADER == "NEWARE"
STATUS_SUCCESS == 0

\* NDA_RECORD_INFO_SPEC with the byte width of each numpy type
NDA_RECORD_INFO_SPEC ==
    << [name |-> "status", size |-> 1],
       [name |-> "record_no", size |-> 4],
       [name |-> "cycle number", size |-> 4],
       [name |-> "Ns", size |-> 1],
       [name |-> "mode", size |-> 1],
       [name |-> "step_time", size |-> 4],
       [name |-> "Ewe", size |-> 4],
       [name |-> "current", size |-> 4],
       [name |-> "temperature", size |-> 8],
       [name |-> "Q charge/discharge", size |-> 8],
       [name |-> "Energy charge/discharge", size |-> 8],
       [name |-> "clock_time", size |-> 8],
       [name |-> "checksum", size |-> 4] >>

\* NDA_RECORD_INFO.itemsize: the dtype is packed
NDA_RECORD_INFO_itemsize ==
    SumSeq([k \in DOMAIN NDA_RECORD_INFO_SPEC |-> NDA_RECORD_INFO_SPEC[k].size])

NdaFieldIndex(name) == CHOOSE k \in DOMAIN NDA_RECORD_INFO_SPEC : NDA_RECORD_INFO_SPEC[k].name = name

NdaFieldOffset(name) ==
    SumSeq([k \in 1..(NdaFieldIndex(name) - 1) |-> NDA_RECORD_INFO_SPEC[k].size])

\* field `name` of record idx of np.frombuffer(contents, NDA_RECORD_INFO, offset)
NdaField(contents, offset, idx, name) ==
    LET at == offset + idx * NDA_RECORD_INFO_itemsize + NdaFieldOffset(name)
    IN  LEValue(SubSeq(contents, at + 1, at + NDA_RECORD_INFO_SPEC[NdaFieldIndex(name)].size))

\* np.frombuffer(contents, dtype = NDA_RECORD_INFO, offset): an error unless
\* the bytes after offset are a whole number of records
NdaFromBufferOk(contents, offset) ==
    /\ offset >= 0
    /\ offset <= Len(contents)
    /\ (Len(contents) - offset) % NDA_RECORD_INFO_itemsize = 0

\* r[lo : hi] = a + series[lo : hi]
AssignSlice(r, lo, hi, a, series) ==
    [k \in DOMAIN r |->
        IF SliceBound(lo, Len(r)) <= k - 1 /\ k - 1 < SliceBound(hi, Len(r))
        THEN a + series[k] ELSE r[k]]

RECURSIVE AccumulateLoop(_, _, _, _, _)
AccumulateLoop(series, change_indices, r, a, mark) ==
    IF change_indices = <<>> THEN AssignSlice(r, mark, Len(series), a, series)
    ELSE LET change_index == Head(change_indices)
         IN  AccumulateLoop(series, Tail(change_indices),
                            AssignSlice(r, mark, change_index + 1, a, series),
                            a + series[change_index + 1], change_index + 1)

accumulateSeriesSteps(series, change_indices) ==
    AccumulateLoop(series, change_indices, [k \in DOMAIN series |-> 0], 0, 0)

NdaRaised == [run |-> TRUE, ok |-> FALSE, steps |-> <<>>, rows |-> <<>>]
NdaNotRun == [run |-> FALSE, ok |-> FALSE, steps |-> <<>>, rows |-> <<>>]
NdaDecoded(steps, rows) == [run |-> TRUE, ok |-> TRUE, steps |-> steps, rows |-> rows]

\* step_infos[0]
NoneStep == [Ns |-> 0, mode |-> "None", params |-> <<>>]

\* how many INT32 parameters the branch of a step mode reads, and how many it skips
StepParamsRead(mode) ==
    CASE mode \in {"CC_charge", "CC_discharge"} -> 3
      [] mode = "Rest" -> 1
      [] mode = "Loop" -> 2
      [] OTHER -> 0

StepParamsSkipped(mode) ==
    CASE mode \in {"CC_charge", "CC_discharge"} -> 2
      [] mode = "Rest" -> 4
      [] mode = "Loop" -> 3
      [] mode = "Stop" -> 5
      [] OTHER -> 0

\* the conversion applied to parameter k of a step of the given mode
StepParam(mode, k, x) ==
    IF mode \in {"CC_charge", "CC_discharge"} /\ k = 1 THEN UA2MA(Scaled(x, <<>>))
    ELSE IF mode \in {"CC_charge", "CC_discharge"} /\ k = 3 THEN TMV2V(Scaled(x, <<>>))
    ELSE Scaled(x, <<>>)

\* the body of the `while True` loop after the assertion on step_id; p is
\* the cursor. pc tells how the pass ends: "loop" (on to the next pass),
\* "break", or "raised"
StepBody(contents, p, step_id, step_infos) ==
    LET raised == [pc |-> "raised", ptr |-> p, step_id |-> step_id, steps |-> <<>>]
        lead == getFieldFlat(contents, p, "<B", BYTE_SIZE)
        step_type == getFieldFlat(contents, p + BYTE_SIZE, "<B", BYTE_SIZE)
    IN  IF ~lead.ok THEN raised
        ELSE IF lead.val # step_id
             THEN [pc |-> "break", ptr |-> p, step_id |-> step_id, steps |-> step_infos]
        ELSE IF ~step_type.ok THEN raised
        ELSE IF ~(step_type.val < Len(STEP_TYPES) /\ STEP_TYPES[step_type.val + 1] # "None")
             THEN raised
        ELSE LET mode == STEP_TYPES[step_type.val + 1]
                 q == p + 2 * BYTE_SIZE
                 reads == [k \in 1..StepParamsRead(mode) |->
                              getFieldFlat(contents, q + (k - 1) * LONG_SIZE, "<i", LONG_SIZE)]
             IN  IF \E k \in DOMAIN reads : ~reads[k].ok THEN raised
                 ELSE [pc |-> "loop",
                       ptr |-> q + (StepParamsRead(mode) + StepParamsSkipped(mode)) * LONG_SIZE,
                       step_id |-> step_id + 1,
                       steps |-> Append(step_infos,
                                        [Ns |-> step_id, mode |-> mode,
                                         params |-> [k \in DOMAIN reads |->
                                                        StepParam(mode, k, reads[k].val)]])]

StepIterationUnguarded(contents, p, step_id, step_infos) ==
    StepBody(contents, p, step_id, step_infos)

\* one pass through the loop: assert step_id < 0xff, then the body
StepIteration(contents, p, step_id, step_infos) ==
    IF ~(step_id < 255)
    THEN [pc |-> "raised", ptr |-> p, step_id |-> step_id, steps |-> <<>>]
    ELSE StepBody(contents, p, step_id, step_infos)

\* the `while True` loop over the step definitions
RECURSIVE StepScan(_, _, _, _)
StepScan(contents, p, step_id, step_infos) ==
    LET pass == StepIteration(contents, p, step_id, step_infos)
    IN  IF pass.pc = "loop" THEN StepScan(contents, pass.ptr, pass.step_id, pass.steps)
        ELSE [ok |-> pass.pc = "break", ptr |-> pass.ptr, steps |-> pass.steps]

\* one element of the record array, with the unit conversions applied and
\* the checksum column deleted
NdaRow(contents, offset, idx) ==
    LET F(name) == NdaField(contents, offset, idx, name)
    IN  [status |-> F("status"),
         record_no |-> F("record_no"),
         cycle_number |-> F("cycle number"),
         Ns |-> F("Ns"),
         mode |-> F("mode"),
         step_time |-> F("step_time"),
         Ewe |-> TMV2V(Scaled(F("Ewe"), <<>>)),
         current |-> UA2MA(Scaled(F("current"), <<>>)),
         temperature |-> F("temperature"),
         Q |-> UAS2MAH(Scaled(F("Q charge/discharge"), <<>>)),
         Energy |-> UWS2WH(Scaled(F("Energy charge/discharge"), <<>>)),
         clock_time |-> F("clock_time")]

KeepsEveryStatus(row) == TRUE

\* dataframe["status"] == STATUS_SUCCESS
IsSuccess(row) == row.status = STATUS_SUCCESS

\* the derived columns half cycle, time and Q-Q0 of the retained rows
NdaDerived(kept) ==
    LET step_changes == constants_findStepChanges([k \in DOMAIN kept |-> kept[k].Ns])
        hc_changes == <<-1>> \o findHalfCycleChanges([k \in DOMAIN kept |-> kept[k].mode],
                                                     DEFAULT_HALF_STEP_TRIGGERS).val
        time == accumulateSeriesSteps([k \in DOMAIN kept |-> kept[k].step_time], step_changes)
        signed == [k \in DOMAIN kept |->
                      kept[k].Q.num * (IF kept[k].mode = StepTypeIndex("CC_discharge")
                                       THEN -1 ELSE 1)]
        qq0 == accumulateSeriesSteps(signed, step_changes)
    IN  [k \in DOMAIN kept |->
            [half_cycle |-> convertIndices(k - 1, hc_changes),
             time |-> time[k],
             QQ0 |-> Scaled(qq0[k], kept[k].Q.den)]]

\* NDAff.fromFile from the magic bytes on; contents holds the file from the
\* step definitions on, so the cursor starts at 0 there
fromFile(magic, contents) ==
    LET scan == StepScan(contents, 0, 1, <<NoneStep>>)
        n == (Len(contents) - scan.ptr) \div NDA_RECORD_INFO_itemsize
        dataframe == [k \in 1..n |-> NdaRow(contents, scan.ptr, k - 1)]
        kept == SelectSeq(dataframe, IsSuccess)
    IN  IF magic # FILE_HEADER THEN NdaRaised
        ELSE IF ~scan.ok THEN NdaRaised
        ELSE IF ~NdaFromBufferOk(contents, scan.ptr) THEN NdaRaised
        ELSE NdaDecoded(scan.steps,
                        [k \in DOMAIN kept |-> kept[k] @@ NdaDerived(kept)[k]])

---------------------------------------------------------------------------
(* The NDA files the model decodes *)

StepTables ==
    { <<"CC_charge">>,
      <<"Rest", "CC_charge">>,
      <<"CC_charge", "CC_discharge">>,
      <<"CC_discharge", "Rest">> }

StatusCodes == {STATUS_SUCCESS, 2}

\* the record numbers in the file need not be consecutive
RecordNo(i) == 2 * i + 1

EncodeStep(id, mode) ==
    <<id, StepTypeIndex(mode)>>
        \o LEBytes(3 * id, LONG_SIZE) \o LEBytes(60, LONG_SIZE) \o LEBytes(42000, LONG_SIZE)
        \o LEBytes(0, LONG_SIZE) \o LEBytes(0, LONG_SIZE)

RECURSIVE EncodeSteps(_, _)
EncodeSteps(stepTable, id) ==
    IF id > Len(stepTable) THEN <<>>
    ELSE EncodeStep(id, stepTable[id]) \o EncodeSteps(stepTable, id + 1)

\* record i (0-based) of a file: its status, its step, the mode of that step
EncodeRecord(i, status, Ns, mode) ==
    LEBytes(status, 1) \o LEBytes(RecordNo(i), 4) \o LEBytes(1, 4)
        \o LEBytes(Ns, 1) \o LEBytes(StepTypeIndex(mode), 1)
        \o LEBytes(i + 1, 4) \o LEBytes(37000 + i, 4) \o LEBytes(500, 4)
        \o LEBytes(25, 8) \o LEBytes(10 * (i + 1), 8) \o LEBytes(7 * (i + 1), 8)
        \o LEBytes(1000 + i, 8) \o LEBytes((status + i) % 251, 4)

RECURSIVE EncodeRecords(_, _, _, _)
EncodeRecords(stepTable, statuses, steps, i) ==
    IF i >= Len(statuses) THEN <<>>
    ELSE EncodeRecord(i, statuses[i + 1], steps[i + 1], stepTable[steps[i + 1]])
            \o EncodeRecords(stepTable, statuses, steps, i + 1)

MakeNdaFile(stepTable, statuses, steps, pad) ==
    EncodeSteps(stepTable, 1) \o EncodeRecords(stepTable, statuses, steps, 0) \o [k \in 1..pad |-> 7]

IdleNDA ==
    /\ ndaMagic = ""
    /\ ndaContents = <<>>
    /\ ndaOut = NdaNotRun

StartNDA ==
    /\ ndaMagic \in {FILE_HEADER, "NEWARX"}
    /\ \E stepTable \in StepTables, n \in 0..MaxNdaRecs, pad \in 0..MaxNdaPad :
          \E statuses \in [1..n -> StatusCodes], steps \in [1..n -> 1..Len(stepTable)] :
              /\ IsSorted(steps)
              /\ ndaContents = MakeNdaFile(stepTable, statuses, steps, pad)
    /\ ndaOut = NdaNotRun

\* NDAff.fromFile
NdaFromFile ==
    /\ ~ndaOut.run
    /\ ndaOut' = fromFile(ndaMagic, ndaContents)
    /\ UNCHANGED <<ndaMagic, ndaContents>>
    /\ UNCHANGED notNDA

---------------------------------------------------------------------------
(* VMPdata.parseMP with its pool of worker processes *)

\* a worker process of mp.Pool: it calls the initializer, then takes tasks
NewWorker == [mySharedData |-> SharedUnset, pc |-> "start", task |-> -1]

NoLayout == [blockOffsets |-> <<>>, dataBlockSize |-> 0, dataOffset |-> 0]

\* the result slot of a record index whose task has not run
Unfinished == [ok |-> FALSE, val |-> -1]

\* the arguments starmap hands to the task of (column i, record index idx)
TaskOffset(lay, cols, i, idx) ==
    IF IsFlagCol(cols[i]) THEN lay.dataOffset + idx * lay.dataBlockSize
    ELSE lay.dataOffset + idx * lay.dataBlockSize + lay.blockOffsets[i]

\* common.getBitFieldFlatShared or common.getFieldFlatShared, run in a worker
\* on that worker's mySharedData
RunTask(shared, lay, cols, i, idx) ==
    IF IsFlagCol(cols[i])
    THEN getBitFieldFlatShared(shared, TaskOffset(lay, cols, i, idx), cols[i].fbit, cols[i].fsize)
    ELSE getFieldFlatShared(shared, TaskOffset(lay, cols, i, idx), cols[i].fmt, cols[i].size)

\* the column lists of the sections decoded in parallel
PoolCodeLists == {<<6>>, <<1, 6>>, <<6, 131>>, <<6, 1, 131>>, <<6, 1>>}

IdlePool ==
    /\ poolShared = <<>>
    /\ poolLayout = NoLayout
    /\ poolWorkers = <<>>
    /\ poolCol = 0
    /\ poolPending = {}
    /\ poolResults = <<>>
    /\ poolDataList = <<>>
    /\ poolPc = "idle"

\* a VMPdata object about to be constructed
StartPool ==
    /\ softVersion \in ACCEPTED_VERSIONS
    /\ \E codes \in PoolCodeLists, n \in 0..MaxRecs :
            data = MakePayload(softVersion, codes, n, 0)
    /\ dataSize = Len(data)
    /\ numDataPts = 0
    /\ colList = <<>>
    /\ hasFlags = FALSE
    /\ ptr = 0
    /\ startOffs = 0
    /\ mprPc = "raw"
    /\ calls = 0
    /\ table = NotRun
    /\ outSeq = NotRun
    /\ outVec = NotRun
    /\ outMP = NotRun
    /\ IdlePool

\* the results of a column are all in: none pending, no worker busy
ColumnMapped ==
    /\ poolPending = {}
    /\ \A w \in DOMAIN poolWorkers : poolWorkers[w].pc # "busy"

\* parseMP up to the first starmap: the block offsets, the shared array,
\* the pool of mp.cpu_count() workers, the tasks of the first column
PoolOpen ==
    /\ mprPc = "ready"
    /\ poolPc \in {"idle", "done", "raised"}
    /\ calls < MaxCalls
    /\ LET lay == BlockOffsets(colList, hasFlags)
       IN  poolLayout' = [blockOffsets |-> lay.blockOffsets,
                          dataBlockSize |-> PyIndex(lay.blockOffsets, -1) + lay.szPrev,
                          dataOffset |-> ptr]
    /\ poolShared' = data
    /\ \E cpu_count \in 1..MaxWorkers : poolWorkers' = [w \in 1..cpu_count |-> NewWorker]
    /\ poolCol' = 1
    /\ poolPending' = 0..(numDataPts - 1)
    /\ poolResults' = [k \in 1..numDataPts |-> Unfinished]
    /\ poolDataList' = <<>>
    /\ poolPc' = "map"
    /\ UNCHANGED mprVars
    /\ UNCHANGED notPool

\* a worker process starts: initializer(*initargs) = initProcess(sharedData)
WorkerInit(w) ==
    /\ poolPc = "map"
    /\ poolWorkers[w].pc = "start"
    /\ poolWorkers' = [poolWorkers EXCEPT ![w] =
                          [mySharedData |-> initProcess(poolShared), pc |-> "ready", task |-> -1]]
    /\ UNCHANGED <<poolShared, poolLayout, poolCol, poolPending, poolResults, poolDataList, poolPc>>
    /\ UNCHANGED mprVars
    /\ UNCHANGED notPool

\* a worker that has run its initializer takes a task of the column
TakeTask(w) ==
    /\ poolPc = "map"
    /\ poolWorkers[w].pc = "ready"
    /\ \E idx \in poolPending :
          /\ poolWorkers' = [poolWorkers EXCEPT ![w].pc = "busy", ![w].task = idx]
          /\ poolPending' = poolPending \ {idx}
    /\ UNCHANGED <<poolShared, poolLayout, poolCol, poolResults, poolDataList, poolPc>>
    /\ UNCHANGED mprVars
    /\ UNCHANGED notPool

\* the worker runs its task and sends the result back
FinishTask(w) ==
    /\ poolPc = "map"
    /\ poolWorkers[w].pc = "busy"
    /\ poolResults' = [poolResults EXCEPT ![poolWorkers[w].task + 1] =
                          RunTask(poolWorkers[w].mySharedData, poolLayout, colList, poolCol,
                                  poolWorkers[w].task)]
    /\ poolWorkers' = [poolWorkers EXCEPT ![w].pc = "ready", ![w].task = -1]
    /\ UNCHANGED <<poolShared, poolLayout, poolCol, poolPending, poolDataList, poolPc>>
    /\ UNCHANGED mprVars
    /\ UNCHANGED notPool

\* starmap returns the results in the order of its argument list, or raises
\* what a task raised; the loop goes on to the next column
GatherColumn ==
    /\ poolPc = "map"
    /\ poolCol <= Len(colList)
    /\ ColumnMapped
    /\ IF \A k \in DOMAIN poolResults : poolResults[k].ok
       THEN /\ poolDataList' = Append(poolDataList, [k \in DOMAIN poolResults |-> poolResults[k].val])
            /\ poolCol' = poolCol + 1
            /\ poolPending' = IF poolCol < Len(colList) THEN 0..(numDataPts - 1) ELSE {}
            /\ poolResults' = [k \in 1..numDataPts |-> Unfinished]
            /\ UNCHANGED <<poolPc, calls, table, outMP>>
       ELSE /\ poolPc' = "raised"
            /\ table' = Raised
            /\ outMP' = IF calls = 0 THEN Raised ELSE outMP
            /\ calls' = calls + 1
            /\ UNCHANGED <<poolDataList, poolCol, poolPending, poolResults>>
    /\ UNCHANGED <<poolShared, poolLayout, poolWorkers>>
    /\ UNCHANGED <<softVersion, data, dataSize, numDataPts, colList, hasFlags, ptr,
                   startOffs, mprPc, outSeq, outVec>>
    /\ UNCHANGED notPool

\* the pool is left, self.ptr is moved past the records, getDataFrame
\* returns pd.DataFrame(self.dataList)
PoolClose ==
    /\ poolPc = "map"
    /\ poolCol > Len(colList)
    /\ ptr' = ptr + numDataPts * poolLayout.dataBlockSize
    /\ table' = Table(poolDataList)
    /\ outMP' = IF calls = 0 THEN Table(poolDataList) ELSE outMP
    /\ calls' = calls + 1
    /\ poolPc' = "done"
    /\ UNCHANGED <<poolShared, poolLayout, poolWorkers, poolCol, poolPending, poolResults,
                   poolDataList>>
    /\ UNCHANGED <<softVersion, data, dataSize, numDataPts, colList, hasFlags,
                   startOffs, mprPc, outSeq, outVec>>
    /\ UNCHANGED notPool

---------------------------------------------------------------------------
(* The step definitions loop of NDAff.fromFile, one pass at a time *)

\* the modes of the step definitions written into the files
ScanModes == <<"CC_charge", "Rest", "CC_discharge", "Loop", "Stop", "CV_charge">>

\* step tables of up to MaxShort entries in every mode of ScanModes, and
\* long tables around the 254 entries the loop accepts
ShortTables ==
    UNION {[1..n -> {ScanModes[k] : k \in DOMAIN ScanModes}] : n \in 0..MaxShort}

LongTables ==
    {[k \in 1..n |-> ScanModes[((k - 1) % (Len(ScanModes) - 1)) + 1]] :
        n \in (MaxScanSteps - 2)..MaxScanSteps}

\* the step definitions as the file holds them: entry k carries index k
EncodeTable(stepTable) ==
    [b \in 1..(Len(stepTable) * (2 * BYTE_SIZE + 5 * LONG_SIZE)) |->
        LET k == ((b - 1) \div (2 * BYTE_SIZE + 5 * LONG_SIZE)) + 1
            o == ((b - 1) % (2 * BYTE_SIZE + 5 * LONG_SIZE)) + 1
        IN  EncodeStep(k % 256, stepTable[k])[o]]

\* what follows the step definitions: nothing, or one record
ScanTails ==
    {<<>>} \cup {EncodeRecord(0, status, 1, "CC_charge") : status \in StatusCodes}

IdleScan ==
    /\ scanContents = <<>>
    /\ scanPtr = 0
    /\ scanStepId = 0
    /\ scanStepInfos = <<>>
    /\ scanAdvance = 0
    /\ scanOffset = -1
    /\ scanPc = "idle"

\* step_infos = [None]; step_id = 1, the cursor at the step definitions
StartScan ==
    /\ \E stepTable \in ShortTables \cup LongTables, tail \in ScanTails :
          scanContents = EncodeTable(stepTable) \o tail
    /\ scanPtr = 0
    /\ scanStepId = 1
    /\ scanStepInfos = <<NoneStep>>
    /\ scanAdvance = 0
    /\ scanOffset = -1
    /\ scanPc = "loop"

\* one pass through the `while True` loop
ScanPass ==
    /\ scanPc = "loop"
    /\ LET pass == StepIteration(scanContents, scanPtr, scanStepId, scanStepInfos)
       IN  /\ scanPc' = pass.pc
           /\ scanPtr' = pass.ptr
           /\ scanStepId' = pass.step_id
           /\ scanStepInfos' = pass.steps
           /\ scanAdvance' = IF pass.pc = "loop" THEN pass.ptr - scanPtr ELSE scanAdvance
    /\ UNCHANGED <<scanContents, scanOffset>>
    /\ UNCHANGED notScan

\* data = np.frombuffer(contents, dtype = NDA_RECORD_INFO, offset = ptr.getValue())
ScanFromBuffer ==
    /\ scanPc = "break"
    /\ IF NdaFromBufferOk(scanContents, scanPtr)
       THEN scanPc' = "done" /\ scanOffset' = scanPtr
       ELSE scanPc' = "raised" /\ scanOffset' = scanOffset
    /\ UNCHANGED <<scanContents, scanPtr, scanStepId, scanStepInfos, scanAdvance>>
    /\ UNCHANGED notScan

---------------------------------------------------------------------------
(* NDAXff.fromFile once the three page streams are extracted *)

NdaxNotRun == [run |-> FALSE, ok |-> FALSE, raisedAt |-> 0, returned |-> <<>>, dataframe |-> <<>>]

\* an exception leaves fromFile at the given line; nothing is returned.
\* dataframe is the local table with the columns set by then
NdaxRaisedWith(line, dataframe) ==
    [run |-> TRUE, ok |-> FALSE, raisedAt |-> line, returned |-> <<>>, dataframe |-> dataframe]

NdaxRaised(line) == NdaxRaisedWith(line, <<>>)

\* dataframe["record_no"] after the skipped records are dropped
RetainedRecordNos(valid) ==
    SelectSeq([k \in DOMAIN valid |-> k], LAMBDA no : valid[no])

\* Q charge - Q discharge as np.interp gives it at a record number
NetCharge(record_no) == 10 * record_no

\* lines 332-344 of fromFile: the step of each row, the global charge, the
\* half cycles; constants defines no HALF_STEP_TRIGGER_STEP_NUMS, so line
\* 339 raises AttributeError
NdaxAssign(valid, step_data) ==
    LET record_no == RetainedRecordNos(valid)
        starts == [j \in DOMAIN step_data |-> step_data[j].start_record_no]
        data_step_indices == [k \in DOMAIN record_no |-> convertIndices(record_no[k], starts)]
        Ns == [k \in DOMAIN record_no |->
                  PyIndex([j \in DOMAIN step_data |-> step_data[j].Ns], data_step_indices[k])]
        change_idcs == [j \in DOMAIN starts |-> starts[j] - 1]
        QQ0 == convertStepToGlobal([k \in DOMAIN record_no |-> NetCharge(record_no[k])],
                                   change_idcs)
        \* the step convertStepToGlobal takes each row to be in
        step_indices == StepIndices(Len(record_no), change_idcs)
    IN  IF ~QQ0.ok
        THEN NdaxRaisedWith(337, [k \in DOMAIN record_no |->
                                     [record_no |-> record_no[k], Ns |-> Ns[k]]])
        ELSE NdaxRaisedWith(339, [k \in DOMAIN record_no |->
                                     [record_no |-> record_no[k], Ns |-> Ns[k],
                                      QQ0 |-> QQ0.val[k],
                                      QQ0_step |-> PyIndex([j \in DOMAIN step_data |-> step_data[j].Ns],
                                                           step_indices[k])]])

NdaxFromStepsUnchecked(valid, step_data) ==
    IF Len(step_data) = 0 THEN NdaxRaised(331)
    ELSE NdaxAssign(valid, step_data)

\* lines 331-344 of fromFile: step_data["start_record_no"][0] raises
\* IndexError on an empty step stream, the assertion raises when it is not 1
NdaxFromSteps(valid, step_data) ==
    IF Len(step_data) = 0 THEN NdaxRaised(331)
    ELSE IF step_data[1].start_record_no # 1 THEN NdaxRaised(331)
    ELSE NdaxAssign(valid, step_data)

\* ---- the streams decoded
\* step streams: the entries in file order, numbered from 1, their starting
\* record numbers not decreasing
NdaxStepStreamsOf(n) ==
    {[j \in 1..n |-> [start_record_no |-> st[j], Ns |-> j, mode |-> md[j]]] :
        st \in {b \in [1..n -> 1..(MaxNdaxRecs + 1)] : IsSorted(b)},
        md \in [1..n -> {StepTypeIndex("CC_charge"), StepTypeIndex("Rest")}]}

NdaxStepStreams == UNION {NdaxStepStreamsOf(n) : n \in 0..MaxNdaxSteps}

IdleNdax ==
    /\ nxValid = <<>>
    /\ nxSteps = <<>>
    /\ nxOut = NdaxNotRun

StartNdax ==
    /\ nxValid \in UNION {[1..n -> BOOLEAN] : n \in 0..MaxNdaxRecs}
    /\ nxSteps \in NdaxStepStreams
    /\ nxOut = NdaxNotRun

\* NDAXff.fromFile
NdaxFromFile ==
    /\ ~nxOut.run
    /\ nxOut' = NdaxFromSteps(nxValid, nxSteps)
    /\ UNCHANGED <<nxValid, nxSteps>>
    /\ UNCHANGED notNdax

---------------------------------------------------------------------------
(* The NDA decoder's accumulation and the common one on the same input *)

\* step-index series: the steps numbered from 1 in file order, or a step
\* number coming back after a Loop
StepSeries(N) == [1..N -> 1..MaxNs]

IdleEquiv ==
    /\ eqSeries = <<>>
    /\ eqNs = <<>>
    /\ eqNda = NoResult
    /\ eqCommon = NoResult

StartEquiv ==
    /\ eqSeries \in Series
    /\ eqNs \in StepSeries(Len(eqSeries))
    /\ eqNda = NoResult
    /\ eqCommon = NoResult

\* NDAff.fromFile lines 142, 146: accumulateSeriesSteps(series, step_changes)
\* with step_changes = constants.findStepChanges(Ns)
CallAccumulateSeriesSteps ==
    /\ eqNda.op = "none"
    /\ eqNda' = Result("accumulateSeriesSteps",
                       Ok(accumulateSeriesSteps(eqSeries, constants_findStepChanges(eqNs))))
    /\ UNCHANGED <<eqSeries, eqNs, eqCommon>>
    /\ UNCHANGED notEquiv

\* common.convertStepToGlobal(series, common.findStepChanges(Ns))
CallConvertStepToGlobalOfSteps ==
    /\ eqCommon.op = "none"
    /\ eqCommon' = Result("convertStepToGlobal",
                          convertStepToGlobal(eqSeries, findStepChanges(eqNs)))
    /\ UNCHANGED <<eqSeries, eqNs, eqNda>>
    /\ UNCHANGED notEquiv

---------------------------------------------------------------------------
(* FFPE/BioLogic/cycle_metrics.py and FFPE/Neware/cycle_metrics.py: the    *)
(* experiment facades                                                     *)

\* b"BIO-LOGIC MODULAR FILE\x1a".ljust(0x30) + 4 * b"\x00", as one token
MPR_FILE_HEADER == "BIO-LOGIC MODULAR FILE"

MprRaised == [ok |-> FALSE, x |-> <<>>, y |-> <<>>]

\* MPRff.fromFile(fileName, version): the file header, the settings section,
\* then the data section in what follows the settings section's end
MPRff_fromFile(magic, contents, version) ==
    IF magic # MPR_FILE_HEADER THEN MprRaised
    ELSE LET res == CHOOSE r \in
                 {IF ~x.ok THEN MprRaised
                  ELSE CHOOSE q \in
                      {IF ~sec.ok THEN MprRaised
                       ELSE CHOOSE p \in
                           {IF ~f.ok THEN MprRaised
                            ELSE [ok |-> TRUE,
                                  x |-> [dataSize |-> x.dataSize, date |-> x.date],
                                  y |-> [data |-> sec.data, colList |-> f.colList,
                                         numDataPts |-> f.numDataPts, ptr |-> f.ptr]] :
                              f \in {VMPdataFields(sec.data, version, sec.dataSize)}} : TRUE :
                         sec \in {VMPsection(PySlice(contents, x.end, Len(contents)), version,
                                             Names(VMP_DATA_SN, VMP_DATA_LN))}} : TRUE :
                    x \in {VMPsection(contents, version, Names(VMP_SET_SN, VMP_SET_LN))}} : TRUE
         IN  res

Unset == [set |-> FALSE, from |-> 0, val |-> <<>>]
Attr(file, val) == [set |-> TRUE, from |-> file, val |-> val]
NoCallYet == [file |-> 0, raised |-> FALSE]

\* ---- the files handed to fromFile
\* .mpr files as version v lays them out: two well-formed ones, a wrong file
\* header, a log section where the settings section should be, an unknown
\* column code, and a data payload cut after its header
BioFiles(v) ==
    LET settings == MakeSection(Names(VMP_SET_SN, VMP_SET_LN), v, <<1, 2, 3>>, 3)
        Data(payload) == MakeSection(Names(VMP_DATA_SN, VMP_DATA_LN), v, payload, Len(payload))
    IN  <<[magic |-> MPR_FILE_HEADER, contents |-> settings \o Data(MakePayload(v, <<6>>, 1, 0))],
          [magic |-> MPR_FILE_HEADER, contents |-> settings \o Data(MakePayload(v, <<1, 6>>, 2, 0))],
          [magic |-> "MODULAR FILE", contents |-> settings \o Data(MakePayload(v, <<6>>, 1, 0))],
          [magic |-> MPR_FILE_HEADER,
           contents |-> MakeSection(Names(VMP_LOG_SN, VMP_LOG_LN), v, <<1, 2, 3>>, 3)
                            \o Data(MakePayload(v, <<6>>, 1, 0))],
          [magic |-> MPR_FILE_HEADER,
           contents |-> settings \o Data(MakePayload(v, <<6, UNKNOWN_CODE>>, 1, 0))],
          [magic |-> MPR_FILE_HEADER,
           contents |-> settings \o Data(TruncatedPayload(v, <<6, 131>>, 2, 0))]>>

\* Neware files: two well-formed .nda files, a wrong magic, a record array
\* with a byte too many, an .ndax archive, and another extension
NewareFiles ==
    <<[ext |-> ".nda", magic |-> FILE_HEADER,
       contents |-> MakeNdaFile(<<"CC_charge">>, <<STATUS_SUCCESS>>, <<1>>, 0)],
      [ext |-> ".nda", magic |-> FILE_HEADER,
       contents |-> MakeNdaFile(<<"Rest", "CC_charge">>, <<STATUS_SUCCESS, STATUS_SUCCESS>>,
                                <<1, 2>>, 0)],
      [ext |-> ".nda", magic |-> "NEWARX",
       contents |-> MakeNdaFile(<<"CC_charge">>, <<STATUS_SUCCESS>>, <<1>>, 0)],
      [ext |-> ".nda", magic |-> FILE_HEADER,
       contents |-> MakeNdaFile(<<"CC_charge">>, <<STATUS_SUCCESS>>, <<1>>, 1)],
      [ext |-> ".ndax", valid |-> <<TRUE>>,
       steps |-> <<[start_record_no |-> 1, Ns |-> 1, mode |-> StepTypeIndex("CC_charge")]>>],
      [ext |-> ".txt"]>>

IdleFacade ==
    /\ fcKind = "none"
    /\ fcVersion = 0
    /\ fcMetadata = Unset
    /\ fcSequence = Unset
    /\ fcLast = NoCallYet
    /\ fcCalls = 0

\* BiologicExperiment(version) or NewareExperiment(): __init__ sets neither
\* metadata nor measurement_sequence
StartFacade ==
    /\ \/ fcKind = "Biologic" /\ fcVersion \in Versions
       \/ fcKind = "Neware" /\ fcVersion = 0
    /\ fcMetadata = Unset
    /\ fcSequence = Unset
    /\ fcLast = NoCallYet
    /\ fcCalls = 0

\* BiologicExperiment.fromFile(fileName)
BiologicFromFile ==
    /\ fcKind = "Biologic"
    /\ fcCalls < MaxFacadeCalls
    /\ \E files \in {BioFiles(fcVersion)} : \E file \in DOMAIN files :
        \E r \in {MPRff_fromFile(files[file].magic, files[file].contents, fcVersion)} :
            IF ~r.ok
            THEN /\ fcLast' = [file |-> file, raised |-> TRUE]
                 /\ UNCHANGED <<fcMetadata, fcSequence>>
            ELSE \E t \in {parseVec(r.y.data, r.y.colList, r.y.numDataPts, r.y.ptr)} :
                    /\ fcMetadata' = Attr(file, <<r.x>>)
                    /\ IF ~t.ok
                       THEN /\ fcLast' = [file |-> file, raised |-> TRUE]
                            /\ UNCHANGED fcSequence
                       ELSE /\ fcLast' = [file |-> file, raised |-> FALSE]
                            /\ fcSequence' = Attr(file, t.cols)
    /\ fcCalls' = fcCalls + 1
    /\ UNCHANGED <<fcKind, fcVersion>>
    /\ UNCHANGED notFacade

\* NDAff.fromFile or NDAXff.fromFile as NewareExperiment.fromFile picks it
NewareDecode(f) ==
    IF f.ext = ".nda" THEN fromFile(f.magic, f.contents)
    ELSE IF f.ext = ".ndax"
    THEN LET r == NdaxFromSteps(f.valid, f.steps)
         IN  IF r.ok THEN NdaDecoded(f.steps, r.returned) ELSE NdaRaised
    ELSE NdaRaised

\* NewareExperiment.fromFile(fileName)
NewareFromFile ==
    /\ fcKind = "Neware"
    /\ fcCalls < MaxFacadeCalls
    /\ \E file \in DOMAIN NewareFiles : \E f \in {NewareFiles[file]} :
        \E r \in {NewareDecode(f)} :
            IF ~r.ok
            THEN /\ fcLast' = [file |-> file, raised |-> TRUE]
                 /\ UNCHANGED <<fcMetadata, fcSequence>>
            ELSE /\ fcLast' = [file |-> file, raised |-> FALSE]
                 /\ fcMetadata' = Attr(file, r.steps)
                 /\ fcSequence' = Attr(file, r.rows)
    /\ fcCalls' = fcCalls + 1
    /\ UNCHANGED <<fcKind, fcVersion>>
    /\ UNCHANGED notFacade

---------------------------------------------------------------------------
(* Specifications: one per decoder *)

InitMPR == StartMPR /\ IdlePage /\ IdleAcc /\ IdleHC /\ IdleNDA /\ IdleBits /\ IdleRead /\ IdleSection /\ IdleScan /\ IdleNdax /\ IdlePool /\ IdleEquiv /\ IdleFacade
NextMPR == VMPdataInit \/ GetDataFrameSeq \/ GetDataFrameVec \/ GetDataFrameMP
SpecMPR == InitMPR /\ [][NextMPR]_vars

InitSection ==
    StartSection /\ IdlePage /\ IdleAcc /\ IdleHC /\ IdleNDA /\ IdleBits /\ IdleRead /\ IdleScan /\ IdleNdax /\ IdlePool /\ IdleEquiv /\ IdleFacade
NextSection ==
    \/ NewVMPsection \/ NewVMPsettings \/ NewVMPlog \/ NewVMPdata
    \/ GetDataFrameSeq \/ GetDataFrameVec \/ GetDataFrameMP
SpecSection == InitSection /\ [][NextSection]_vars

InitPage == StartPage /\ IdleMPR /\ IdleAcc /\ IdleHC /\ IdleNDA /\ IdleBits /\ IdleRead /\ IdleSection /\ IdleScan /\ IdleNdax /\ IdlePool /\ IdleEquiv /\ IdleFacade
NextPage == ExtractAllFromBuffer \/ NdaxDataFrame
SpecPage == InitPage /\ [][NextPage]_vars

InitCrc == StartCrc /\ IdleMPR /\ IdleAcc /\ IdleHC /\ IdleNDA /\ IdleBits /\ IdleRead /\ IdleSection /\ IdleScan /\ IdleNdax /\ IdlePool /\ IdleEquiv /\ IdleFacade
NextCrc == CallIsPageValid \/ ExtractAllFromBuffer
SpecCrc == InitCrc /\ [][NextCrc]_vars

InitBits == StartBits /\ IdleMPR /\ IdlePage /\ IdleAcc /\ IdleHC /\ IdleNDA /\ IdleRead /\ IdleSection /\ IdleScan /\ IdleNdax /\ IdlePool /\ IdleEquiv /\ IdleFacade
NextBits == CallGetBitField
SpecBits == InitBits /\ [][NextBits]_vars

InitRead == StartRead /\ IdleMPR /\ IdlePage /\ IdleAcc /\ IdleHC /\ IdleNDA /\ IdleBits /\ IdleSection /\ IdleScan /\ IdleNdax /\ IdlePool /\ IdleEquiv /\ IdleFacade
NextRead ==
    \/ CallCheckField \/ CallGetRaw \/ CallGetField
    \/ CallCheckFieldFlat \/ CallGetRawFlat \/ CallGetFieldFlat
    \/ CallGetFieldsStridedFlat \/ CallGetBitFieldFlat \/ CallGetBitFieldsStridedFlat
    \/ CallInitProcess
    \/ CallGetFieldFlatShared \/ CallGetFieldsStridedFlatShared
    \/ CallGetBitFieldFlatShared \/ CallGetBitFieldsStridedFlatShared
SpecRead == InitRead /\ [][NextRead]_vars

InitAcc == StartAcc /\ IdleMPR /\ IdlePage /\ IdleHC /\ IdleNDA /\ IdleBits /\ IdleRead /\ IdleSection /\ IdleScan /\ IdleNdax /\ IdlePool /\ IdleEquiv /\ IdleFacade
NextAcc ==
    \/ CallConvertStepToGlobal \/ CallFindStepChanges \/ CallConstantsFindStepChanges
    \/ CallConvertIndices \/ CallConstantsConvertIndices
SpecAcc == InitAcc /\ [][NextAcc]_vars

InitHC == StartHC /\ IdleMPR /\ IdlePage /\ IdleAcc /\ IdleNDA /\ IdleBits /\ IdleRead /\ IdleSection /\ IdleScan /\ IdleNdax /\ IdlePool /\ IdleEquiv /\ IdleFacade
NextHC == CallFindHalfCycleChanges \/ CallFindHalfCycleChangesDefault \/ CallFindSegmentChanges
SpecHC == InitHC /\ [][NextHC]_vars

InitNDA == StartNDA /\ IdleMPR /\ IdlePage /\ IdleAcc /\ IdleHC /\ IdleBits /\ IdleRead /\ IdleSection /\ IdleScan /\ IdleNdax /\ IdlePool /\ IdleEquiv /\ IdleFacade
NextNDA == NdaFromFile
SpecNDA == InitNDA /\ [][NextNDA]_vars

InitScan ==
    StartScan /\ IdleMPR /\ IdlePage /\ IdleAcc /\ IdleHC /\ IdleNDA /\ IdleBits /\ IdleRead /\ IdleSection /\ IdleNdax /\ IdlePool /\ IdleEquiv /\ IdleFacade
NextScan == ScanPass \/ ScanFromBuffer
SpecScan == InitScan /\ [][NextScan]_vars

\* the loop runs in one thread: a pass that can be made is made
SpecScanLive == SpecScan /\ WF_vars(NextScan)

InitNdax ==
    StartNdax /\ IdleMPR /\ IdlePage /\ IdleAcc /\ IdleHC /\ IdleNDA /\ IdleBits /\ IdleRead /\ IdleSection /\ IdleScan /\ IdlePool /\ IdleEquiv /\ IdleFacade
NextNdax == NdaxFromFile
SpecNdax == InitNdax /\ [][NextNdax]_vars

InitEquiv ==
    StartEquiv /\ IdleMPR /\ IdlePage /\ IdleAcc /\ IdleHC /\ IdleNDA /\ IdleBits /\ IdleRead /\ IdleSection /\ IdleScan /\ IdleNdax /\ IdlePool /\ IdleFacade
NextEquiv == CallAccumulateSeriesSteps \/ CallConvertStepToGlobalOfSteps
SpecEquiv == InitEquiv /\ [][NextEquiv]_vars

InitFacade ==
    StartFacade /\ IdleMPR /\ IdlePage /\ IdleAcc /\ IdleHC /\ IdleNDA /\ IdleBits /\ IdleRead /\ IdleSection /\ IdleScan /\ IdleNdax /\ IdlePool /\ IdleEquiv
NextFacade == BiologicFromFile \/ NewareFromFile
SpecFacade == InitFacade /\ [][NextFacade]_vars

InitPool ==
    StartPool /\ IdlePage /\ IdleAcc /\ IdleHC /\ IdleNDA /\ IdleBits /\ IdleRead /\ IdleSection /\ IdleScan /\ IdleNdax /\ IdleEquiv /\ IdleFacade
NextPool ==
    \/ VMPdataInit
    \/ PoolOpen
    \/ \E w \in DOMAIN poolWorkers : WorkerInit(w) \/ TakeTask(w) \/ FinishTask(w)
    \/ GatherColumn
    \/ PoolClose
SpecPool == InitPool /\ [][NextPool]_vars

---------------------------------------------------------------------------
(* Properties of the MPR data section *)

\* the record stride as the format defines it: the widths of the numeric
\* columns, plus one byte if any column is a bit-field
StrideOf(cols) ==
    SumSeq([i \in DOMAIN cols |-> IF cols[i].fmt = "None" THEN 0 ELSE cols[i].size])
        + (IF \E i \in DOMAIN cols : cols[i].fmt = "None" THEN 1 ELSE 0)

\* C1: for every accepted version, column list and consistent payload, the
\* start offset the constructor stores is payloadLength - recordCount * stride
\* for versions 1146 and 1152, and one stride less for version 1101.
C1_StartOffset ==
    mprPc = "ready" =>
        /\ softVersion \in {1146, 1152} =>
                startOffs = dataSize - numDataPts * StrideOf(colList)
        /\ softVersion = 1101 =>
                startOffs = dataSize - numDataPts * StrideOf(colList) - StrideOf(colList)
        /\ calls = 0 => ptr = startOffs

C1_Witness ==
    /\ mprPc = "ready"
    /\ softVersion = 1101
    /\ numDataPts >= 2
    /\ \E i \in DOMAIN colList : colList[i].fmt = "None"
    /\ \E i \in DOMAIN colList : colList[i].fmt # "None"
    /\ startOffs > 0

SameTable(a, b) == a.ok = b.ok /\ (a.ok => a.cols = b.cols)

\* C2: started from the same record-array start offset, parse(), parseVec()
\* and parseMP() produce the same value for every (column, record index),
\* whatever the order of numeric and bit-field columns.
C2_StrategiesAgree ==
    (outSeq.run /\ outVec.run /\ outMP.run) =>
        (SameTable(outSeq, outVec) /\ SameTable(outVec, outMP))

---------------------------------------------------------------------------
(* Properties of the paged streams *)

SelectedPages == PagesOfType(buf, NDAX_DATA_INFO_PAGENUM)
NumItems == NDAX_PAGE_DATA_SZ \div reqSize
SetMax(S) == CHOOSE x \in S : \A y \in S : y <= x

\* C3: in "keep invalid records" mode the last selected page gives the
\* records at slots 0..L, L the slot of its last set bitmap bit, and drops
\* only the slots after L: with every earlier page contributing all its
\* slots, the stream yields (pages - 1) * floor(3960 / recordSize) + L + 1
\* records, the last of which is slot L of the last page, flagged valid.
C3_LastPageInclusive ==
    (pageOut.ok /\ ~dropInvalid /\ SelectedPages # <<>>) =>
        LET last == SelectedPages[Len(SelectedPages)]
            populated == last.bitmap \cap Lead(NumItems)
        IN  populated # {} =>
                LET L == SetMax(populated)
                    total == (Len(SelectedPages) - 1) * NumItems + L + 1
                IN  /\ Len(pageOut.records) = total
                    /\ pageOut.records[total] = RecordAt(last, L)
                    /\ pageOut.validity[total] = TRUE

\* C10: if the number of set bits of the 1024-bit bitmap of a page handed to
\* extractAllFromPage differs from the page's declared count, the
\* extraction aborts and returns no records, in either mode.
C10_PopcountChecked ==
    (pageOut.run /\ \E k \in DOMAIN SelectedPages :
                        Cardinality(SelectedPages[k].bitmap \cap BitmapBits)
                            # SelectedPages[k].count)
        => ~pageOut.ok


\* the trailer of page f is the CRC-32 of the 4092 bytes before it
TrailerMatches(f) == f.crc32 = Crc32(f)

\* page g is page f with one byte among the first 4092 changed
OneByteChanged(f, g) ==
    /\ Cardinality({k \in 0..(NDAX_PAGE_HEAD_SZ - 1) : PageByte(f, k) # PageByte(g, k)}) = 1
    /\ f.crc32 = g.crc32

\* C11: isPageValid returns true for a 4096-byte page whose trailer equals
\* the CRC-32 of its first 4092 bytes and false for the page obtained from it
\* by changing one byte among the first 4092; with validation requested,
\* extractAllFromBuffer aborts when a selected page is not valid.
C11_PageValidity ==
    /\ pageValid # <<>> =>
        \A k \in 1..Len(buf) :
            /\ TrailerMatches(buf[k]) => pageValid[k]
            /\ (TrailerMatches(pristine[k]) /\ OneByteChanged(pristine[k], buf[k]))
                    => ~pageValid[k]
    /\ (pageOut.run /\ validatePages
            /\ \E k \in DOMAIN SelectedPages : ~TrailerMatches(SelectedPages[k]))
        => ~pageOut.ok

\* a page with a byte changed was checked next to an untouched one, and a
\* validated extraction met a selected page with a byte changed
C11_Witness ==
    /\ pageValid # <<>>
    /\ \E k \in 1..Len(buf) : TrailerMatches(buf[k]) /\ pageValid[k]
    /\ \E k \in 1..Len(buf) :
            /\ TrailerMatches(pristine[k]) /\ OneByteChanged(pristine[k], buf[k])
            /\ ~pageValid[k]
            /\ buf[k].type = NDAX_DATA_INFO_PAGENUM
    /\ pageOut.run /\ validatePages /\ ~pageOut.ok

---------------------------------------------------------------------------
(* Properties of the bit fields *)

\* bit i of byte b
BitOf(b, i) == (b \div Pow(2, i)) % 2

\* C12: getBitField(b, off, w) is (b >> off) mod 2^w, the number whose bit i
\* is bit off + i of b for i < w, for every byte b; and for every split of
\* the 8 bits into fields (off_k, w_k) that do not overlap, the sum of
\* getBitField(b, off_k, w_k) * 2^off_k is b.
C12_BitFields ==
    flagOut # <<>> =>
        /\ \A k \in 1..Len(flagFields) :
                flagOut[k] = SumSeq([i \in 1..flagFields[k][2] |->
                                        BitOf(flagByte, flagFields[k][1] + i - 1) * Pow(2, i - 1)])
        /\ SumSeq([k \in 1..Len(flagFields) |-> flagOut[k] * Pow(2, flagFields[k][1])])
                = flagByte

\* a byte with bits set in each of three fields was taken apart
C12_Witness ==
    /\ Len(flagOut) = 3
    /\ \A k \in 1..3 : flagOut[k] > 0
    /\ flagFields[2][1] > 0

---------------------------------------------------------------------------
(* Properties of the buffer reads *)

\* C13: every successful sequential read (getField, getRaw, checkField)
\* advances the cursor by exactly the byte width of the read and changes
\* nothing else; every fixed-offset read (the Flat functions and their
\* shared-buffer variants) leaves the cursor and the buffers unchanged.
C13_ReadsFrame ==
    [][/\ (rdOut'.op \in SequentialReads /\ rdOut'.ok) =>
            /\ rdPtr' = rdPtr + rdOut'.size
            /\ UNCHANGED <<rdData, rdShared, notRead>>
       /\ rdOut'.op \in FixedOffsetReads => UNCHANGED <<rdPtr, rdData, rdShared, notRead>>]_vars

\* a fixed-offset read was made after sequential reads had moved the cursor
C13_Witness ==
    /\ rdOut.op = "getFieldFlatShared" /\ rdOut.ok
    /\ rdOut.at = 0
    /\ rdPtr = Len(rdData)
    /\ rdPtr > SHORT_SIZE

\* C14: every sequential read whose byte range [cursor, cursor + size)
\* extends past the end of the buffer fails, getRaw as well as getField and
\* checkField.
C14_OutOfRangeReadsFail ==
    (rdOut.op \in SequentialReads /\ rdOut.at + rdOut.size > Len(rdData)) => ~rdOut.ok

---------------------------------------------------------------------------
(* Properties of the MPR section constructors *)

\* where the payload of a section block begins
PayloadStart ==
    Len(HEADER) + MODULE_SN_SIZE + MODULE_LN_SIZE
        + (IF softVersion = 1152 THEN LONG_SIZE + LLONG_SIZE ELSE LONG_SIZE)
        + LONG_SIZE + DATE_SIZE

\* the column codes the block of a data section holds, in file order
BlockCodes ==
    LET at == PayloadStart + LONG_SIZE
        w == IF softVersion = 1152 THEN SHORT_SIZE ELSE BYTE_SIZE
        nc == LEValue(SubSeq(secBlock, at + 1, at + w))
    IN  [i \in 1..nc |-> LEValue(SubSeq(secBlock, at + w + 2 * i - 1, at + w + 2 * i))]

IsDataBlock ==
    SubSeq(secBlock, Len(HEADER) + 1, Len(HEADER) + MODULE_SN_SIZE) = VMP_DATA_SN

\* C15: constructing an MPR section (settings, data, log) with a software
\* version outside {1101, 1146, 1152} fails before any byte of the section is
\* read, and no section object, column list or table is produced.
C15_VersionRefused ==
    (secOut.run /\ softVersion \notin {1101, 1146, 1152}) =>
        /\ ~secOut.ok
        /\ secOut.reads = 0
        /\ mprPc = "failed"
        /\ data = <<>> /\ colList = <<>>
        /\ ~table.run /\ ~outSeq.run /\ ~outVec.run /\ ~outMP.run

\* a well-formed data section was handed to VMPdata with version 1000
C15_Witness ==
    /\ secOut.run /\ secOut.kind = "data"
    /\ softVersion = 1000
    /\ IsDataBlock
    /\ BlockCodes = <<1, 6>>

\* C16: if a column code read from an MPR data section is not a key of the
\* column catalog, the construction of the data section fails at the first
\* such code: no column is substituted or skipped, and no data-section
\* object or table is produced.
C16_UnknownCodeRefused ==
    (/\ secOut.run /\ secOut.kind = "data"
     /\ softVersion \in ACCEPTED_VERSIONS
     /\ IsDataBlock
     /\ \E i \in DOMAIN BlockCodes : BlockCodes[i] \notin DOMAIN VMP_DATA_FIELD_LIST) =>
        /\ ~secOut.ok
        /\ secOut.codesRead =
              CHOOSE i \in DOMAIN BlockCodes :
                  /\ BlockCodes[i] \notin DOMAIN VMP_DATA_FIELD_LIST
                  /\ \A j \in 1..(i - 1) : BlockCodes[j] \in DOMAIN VMP_DATA_FIELD_LIST
        /\ mprPc = "failed"
        /\ colList = <<>>
        /\ ~table.run /\ ~outSeq.run /\ ~outVec.run /\ ~outMP.run

\* a data section whose second code is unknown was handed to VMPdata
C16_Witness ==
    /\ secOut.run /\ secOut.kind = "data" /\ secOut.codesRead = 2
    /\ softVersion \in ACCEPTED_VERSIONS
    /\ BlockCodes = <<6, UNKNOWN_CODE, 131>>

---------------------------------------------------------------------------
(* Properties of the step reconstruction *)

Converted == accOut.op = "convertStepToGlobal" /\ accOut.ok

\* the segments of a boundary array that begin at or before record index i
SegmentsUpTo(i) == {j \in DOMAIN boundaries : boundaries[j] <= i}

\* the final step-local value of the segment before segment j
PreviousFinal(j) == IF boundaries[j] = 0 THEN 0 ELSE seriesIn[boundaries[j]]

RECURSIVE SumOver(_, _)
SumOver(f(_), S) ==
    IF S = {} THEN 0
    ELSE LET x == CHOOSE y \in S : TRUE IN f(x) + SumOver(f, S \ {x})

\* C4: convertStepToGlobal returns, at every record index i that lies in a
\* segment, series[i] plus the previous-segment finals of all the segments
\* up to the one holding i, for every sorted boundary array
C4_GlobalValue ==
    Converted =>
        \A i \in 0..(Len(seriesIn) - 1) :
            SegmentsUpTo(i) # {} =>
                accOut.val[i + 1] = seriesIn[i + 1] + SumOver(PreviousFinal, SegmentsUpTo(i))

C4_Witness ==
    /\ Converted
    /\ Len(seriesIn) = MaxLen
    /\ Len(boundaries) = 2
    /\ 0 < boundaries[1] /\ boundaries[1] < boundaries[2] /\ boundaries[2] < Len(seriesIn)
    /\ \A k \in DOMAIN seriesIn : seriesIn[k] > 0

\* C5 as stated: with a boundary array of length 1 the series comes back
\* unchanged at every index
C5_OneSegmentUnchanged ==
    (Converted /\ Len(boundaries) = 1) => accOut.val = seriesIn

\* C5 amended: with the single boundary 0 the series comes back unchanged;
\* with a single boundary k in 1..Len(series) every index i gets
\* series[i] + series[k - 1]
C5_OneBoundary ==
    (accOut.op = "convertStepToGlobal" /\ Len(boundaries) = 1) =>
        /\ accOut.ok
        /\ Len(accOut.val) = Len(seriesIn)
        /\ \A i \in 0..(Len(seriesIn) - 1) :
              accOut.val[i + 1] = seriesIn[i + 1] + PreviousFinal(1)
        /\ boundaries[1] = 0 => accOut.val = seriesIn

C5_Witness ==
    /\ Converted
    /\ boundaries = <<0>>
    /\ Len(seriesIn) = MaxLen
    /\ \A k \in DOMAIN seriesIn : seriesIn[k] > 0

\* C6: on a non-empty step-index series both step-change finders return
\* index 0 followed by the indices i > 0 with series[i] # series[i - 1], in
\* increasing order
C6_StepChangeFinders ==
    accOut.op \in {"findStepChanges", "constants.findStepChanges"} =>
        /\ Len(accOut.val) >= 1
        /\ accOut.val[1] = 0
        /\ \A k \in 1..(Len(accOut.val) - 1) : accOut.val[k] < accOut.val[k + 1]
        /\ {accOut.val[k] : k \in DOMAIN accOut.val}
              = {0} \cup {i \in 1..(Len(seriesIn) - 1) : seriesIn[i + 1] # seriesIn[i]}

---------------------------------------------------------------------------
(* Properties of the half-cycle boundary finders *)

\* the trigger step type numbers in force for the call made
TriggersInForce ==
    IF hcOut.op = "findHalfCycleChanges(default)"
    THEN {StepTypeIndex(DEFAULT_HALF_STEP_TRIGGERS[k]) : k \in DOMAIN DEFAULT_HALF_STEP_TRIGGERS}
    ELSE {StepTypeIndex(trigNames[k]) : k \in DOMAIN trigNames}

\* start indices of the maximal runs of consecutive entries equal to a trigger mode
RunStarts ==
    {i \in 0..(Len(modes) - 1) :
        /\ modes[i + 1] \in TriggersInForce
        /\ i = 0 \/ modes[i] # modes[i + 1]}

Increasing(a) == \A k \in 1..(Len(a) - 1) : a[k] < a[k + 1]

Elems(a) == {a[k] : k \in DOMAIN a}

\* C7: the boundary finders return exactly the sorted union over the trigger
\* modes of the start indices of the maximal runs of that mode
\* (findSegmentChanges with the sentinel -1 in front)
C7_RunStarts ==
    /\ hcOut.op \in {"findHalfCycleChanges", "findHalfCycleChanges(default)"} =>
          hcOut.ok /\ Increasing(hcOut.val) /\ Elems(hcOut.val) = RunStarts
    /\ hcOut.op = "findSegmentChanges" =>
          /\ hcOut.ok /\ Increasing(hcOut.val)
          /\ hcOut.val[1] = -1
          /\ Elems(Tail(hcOut.val)) = RunStarts

\* C8: a boundary is placed at index k only when mode[k] is a trigger mode
\* and either k = 0 or mode[k - 1] is not a trigger mode
C8_BoundaryOnlyAfterNonTrigger ==
    hcOut.op # "none" =>
        \A k \in Elems(hcOut.val) \ {-1} :
            /\ modes[k + 1] \in TriggersInForce
            /\ k = 0 \/ modes[k] \notin TriggersInForce

---------------------------------------------------------------------------
(* Properties of the NDA decoder *)

\* where the record array of the file begins: after the step definitions
\* the scan accepted
RecordsStart == StepScan(ndaContents, 0, 1, <<NoneStep>>).ptr

RecordCount == (Len(ndaContents) - RecordsStart) \div NDA_RECORD_INFO_itemsize

\* status and record_no of record idx as they stand in the file
FileStatus(idx) == ndaContents[RecordsStart + idx * NDA_RECORD_INFO_itemsize + 1]

FileRecordNo(idx) ==
    LEValue(SubSeq(ndaContents, RecordsStart + idx * NDA_RECORD_INFO_itemsize + 2,
                   RecordsStart + idx * NDA_RECORD_INFO_itemsize + 5))

SuccessRecords == SelectSeq([k \in 1..RecordCount |-> k - 1],
                            LAMBDA idx : FileStatus(idx) = STATUS_SUCCESS)

\* C9: the decoded table holds exactly the records whose status is success,
\* in file order, each with the record_no read from the file, and no row
\* with another status
C9_SuccessRowsOnly ==
    ndaOut.ok =>
        /\ Len(ndaOut.rows) = Len(SuccessRecords)
        /\ \A k \in DOMAIN ndaOut.rows :
              /\ ndaOut.rows[k].status = STATUS_SUCCESS
              /\ ndaOut.rows[k].record_no = FileRecordNo(SuccessRecords[k])

C9_Witness ==
    /\ ndaOut.ok
    /\ RecordCount = MaxNdaRecs
    /\ FileStatus(0) # STATUS_SUCCESS
    /\ FileStatus(1) = STATUS_SUCCESS
    /\ FileStatus(2) # STATUS_SUCCESS
    /\ Len(ndaOut.rows) = 1
    /\ ndaOut.rows[1].record_no = RecordNo(1)

---------------------------------------------------------------------------
(* Properties of the NDA step definitions loop *)

\* the byte at the cursor, -1 at the end of the file
LeadByte == IF scanPtr < Len(scanContents) THEN scanContents[scanPtr + 1] ELSE -1

\* the steps accepted so far: step_infos without its leading None
Accepted == Len(scanStepInfos) - 1

ScanStopped == scanPc \in {"done", "raised"}

\* the accepted steps are numbered 1, 2, ..., k with k <= 254; once the loop
\* is left the byte at the cursor is not the next index, and the record
\* array is read from that byte on
ScanNumbered ==
    /\ scanPc \in {"loop", "break", "done"} =>
          /\ Accepted = scanStepId - 1
          /\ \A k \in 1..Accepted : scanStepInfos[k + 1].Ns = k
          /\ Accepted <= 254
    /\ scanPc \in {"break", "done"} => (LeadByte # -1 /\ LeadByte # scanStepId)
    /\ scanPc = "done" => scanOffset = scanPtr

\* a pass leaves the loop exactly when the byte at the cursor differs from
\* the next expected index, and then consumes nothing; a pass made with the
\* next expected index at 255 fails
ScanPassStops ==
    scanPc = "loop" =>
        /\ (scanPc' = "break") = (scanStepId < 255 /\ LeadByte # -1 /\ LeadByte # scanStepId)
        /\ scanPc' = "break" => (scanPtr' = scanPtr /\ scanStepInfos' = scanStepInfos)
        /\ scanStepId = 255 => scanPc' = "raised"
        /\ scanPc' = "loop" => (scanStepId' = scanStepId + 1 /\ scanPtr' > scanPtr)

\* C17: the NDA step-table scan always terminates; it stops at the first
\* entry position whose leading byte differs from the next expected step
\* index, leaving that byte unconsumed so that the record array starts at
\* it; it fails instead of continuing once the next expected index would be
\* 255; the accepted steps are numbered 1, 2, ..., k with k <= 254.
C17_ScanTerminates ==
    /\ <>ScanStopped
    /\ []ScanNumbered
    /\ [][ScanPassStops]_vars
    /\ (scanStepId = 255) ~> (scanPc = "raised")

\* 254 steps were accepted and the pass for index 255 failed
C17_Witness ==
    /\ scanPc = "raised"
    /\ scanStepId = 255
    /\ Len(scanContents) > 254 * (2 * BYTE_SIZE + 5 * LONG_SIZE)
    /\ scanPtr = 254 * (2 * BYTE_SIZE + 5 * LONG_SIZE)

\* C18: every accepted NDA step-table entry advances the cursor by the same
\* number of bytes (index byte + mode byte + a 5 x 4-byte parameter block),
\* whatever its mode.
C18_EntryWidthConstant ==
    (scanPc \in {"loop", "break", "done"} /\ Accepted > 0) =>
        scanAdvance = 2 * BYTE_SIZE + 5 * LONG_SIZE

---------------------------------------------------------------------------
(* Properties of the NDAX decoder *)

\* C19: if the first entry of the NDAX step stream has a starting record
\* number other than 1, NDAX decoding fails and returns no header, step
\* table or measurement table; it fails at the check of that number, before
\* any row is given a step.
C19_FirstStepStartsAtOne ==
    (nxOut.run /\ Len(nxSteps) > 0 /\ nxSteps[1].start_record_no # 1) =>
        /\ ~nxOut.ok
        /\ nxOut.returned = <<>>
        /\ nxOut.raisedAt = 331

\* two valid records, and a step stream whose first entry starts at record 2
C19_Witness ==
    /\ nxOut.run
    /\ Len(nxSteps) = MaxNdaxSteps
    /\ nxSteps[1].start_record_no = 2
    /\ Len(RetainedRecordNos(nxValid)) >= 2
    /\ nxOut.raisedAt = 331

---------------------------------------------------------------------------
(* Properties of the parallel MPR decode *)

\* the field of column c (1-based) in record idx of the shared payload, as
\* the record layout places it: the flags byte first, then the numeric
\* columns in file order
RecordField(c, idx) ==
    LET at == poolLayout.dataOffset + idx * RecordItemsize(colList)
    IN  IF IsFlagCol(colList[c])
        THEN getBitFieldFlat(poolShared, at, colList[c].fbit, colList[c].fsize)
        ELSE getFieldFlat(poolShared, at + FieldOffset(colList, c), colList[c].fmt, colList[c].size)

\* position i of every column mapped holds the result of the task starmap
\* was given for record index i, whichever worker ran it and when
PoolInOrder ==
    \A c \in DOMAIN poolDataList : \A idx \in 0..(numDataPts - 1) :
        poolDataList[c][idx + 1] =
            RunTask(initProcess(poolShared), poolLayout, colList, c, idx).val

\* the shared payload is the section's payload as long as the pool exists
PoolFrozen == poolPc # "idle" => poolShared = data

\* a worker running a task has had its mySharedData set to the shared payload
PoolHandleSet ==
    \A w \in DOMAIN poolWorkers :
        poolWorkers[w].pc = "busy" => poolWorkers[w].mySharedData = initProcess(poolShared)

\* C20: in the parallel MPR decode, under every interleaving and assignment
\* of (column, record-index) tasks to workers, the value stored at position
\* i of each column is the fixed-offset read of record i of that column
\* from the shared payload; workers never write to the shared payload, and
\* no task runs on a worker before that worker's handle has been set.
C20_ParallelDecode ==
    /\ \A c \in DOMAIN poolDataList : \A idx \in 0..(numDataPts - 1) :
          RecordField(c, idx).ok /\ poolDataList[c][idx + 1] = RecordField(c, idx).val
    /\ PoolFrozen
    /\ PoolHandleSet

---------------------------------------------------------------------------
(* Properties of the index-to-segment mapping *)

IndicesConverted == accOut.op \in {"convertIndices", "constants.convertIndices"}

\* C24: for every sorted boundary array b and every index i >= b[0],
\* convertIndices(i, b) is the largest j with b[j] <= i (so b[j] <= i, and
\* i < b[j+1] when j is not the last segment); for i < b[0] it is -1.
C24_EnclosingSegment ==
    (IndicesConverted /\ boundaries # <<>>) =>
        \A k \in DOMAIN seriesIn :
            LET i == seriesIn[k]
                j == accOut.val[k]
            IN  IF i >= boundaries[1]
                THEN /\ j \in 0..(Len(boundaries) - 1)
                     /\ boundaries[j + 1] <= i
                     /\ j + 1 < Len(boundaries) => i < boundaries[j + 2]
                     /\ \A l \in 0..(Len(boundaries) - 1) : boundaries[l + 1] <= i => l <= j
                ELSE j = -1

\* indices before, at and after the boundaries of a two-segment array
C24_Witness ==
    /\ accOut.op = "convertIndices"
    /\ boundaries = <<1, 2>>
    /\ seriesIn = <<0, 1, 2>>
    /\ accOut.val = <<-1, 0, 1>>

---------------------------------------------------------------------------
(* The two accumulations agree *)

BothAccumulated == eqNda.op # "none" /\ eqCommon.op # "none"

\* C29: for every non-empty series and every step-index sequence Ns of the
\* same length, accumulateSeriesSteps(series, constants.findStepChanges(Ns))
\* equals convertStepToGlobal(series, common.findStepChanges(Ns)) at every
\* index.
C29_AccumulationsAgree ==
    BothAccumulated =>
        /\ eqNda.ok /\ eqCommon.ok
        /\ Len(eqNda.val) = Len(eqSeries)
        /\ Len(eqCommon.val) = Len(eqSeries)
        /\ \A k \in DOMAIN eqSeries : eqNda.val[k] = eqCommon.val[k]

\* three steps, the first two of a single record, the step number coming
\* back: each step adds the last value of the steps before it
C29_Witness ==
    /\ BothAccumulated
    /\ eqNs = <<1, 2, 1, 1>>
    /\ eqSeries = <<2, 1, 1, 2>>
    /\ eqNda.val = <<2, 3, 4, 5>>
    /\ eqCommon.val = <<2, 3, 4, 5>>

---------------------------------------------------------------------------
(* A stream without a page of the requested type *)

\* C30: extractAllFromBuffer returns empty record and validity sequences,
\* without failing, whenever no page of the buffer carries the requested
\* type tag: for the empty buffer, and for a non-empty buffer whose pages
\* all carry other tags.
C30_NoPageOfType ==
    (pageOut.run /\ SelectedPages = <<>>) =>
        /\ pageOut.ok
        /\ pageOut.records = <<>>
        /\ pageOut.validity = <<>>

---------------------------------------------------------------------------
(* Decoding a data section twice *)

\* C28: decoding a data section leaves the stored start offset of the record
\* array unchanged, so that a further getDataFrame call, with any strategy,
\* succeeds and returns the same table.
C28_DecodeKeepsOffset ==
    [][calls' = calls + 1 =>
          /\ table'.ok => ptr' = ptr
          /\ (calls >= 1 /\ table.ok) => SameTable(table, table')]_vars

---------------------------------------------------------------------------
(* A record array that does not fit the payload *)

\* the bytes the constructor consumed: record count, column count, codes
HeaderLen == LONG_SIZE + NumColsSize(softVersion) + Len(colList) * SHORT_SIZE

OffsetInconsistent == mprPc = "ready" /\ (startOffs < 0 \/ startOffs < HeaderLen)

\* C23: when the computed start offset of the record array is inconsistent
\* with the declared payload length (negative, or inside the bytes consumed
\* for the record count, the column count and the column codes), the decode
\* fails under every strategy and no table is returned.
C23_MisalignedFails ==
    OffsetInconsistent => (~outSeq.ok /\ ~outVec.ok /\ ~outMP.ok)

---------------------------------------------------------------------------
(* Record numbers of the rows kept from data.ndc *)

\* the position in the returned sequences of slot j of the k-th selected
\* page (k counted from 0)
SlotPosition(k, j) == k * NumItems + j + 1

\* C25: in "keep invalid records" mode every selected page but the last
\* contributes all its floor(3960 / recordSize) slots, in order, the validity
\* flag of slot j being bit j of the page's bitmap; the record and validity
\* sequences have the same length; slot j of the k-th selected page (from 0)
\* gets record number k * floor(3960 / recordSize) + j + 1; the NDAX decoder
\* keeps exactly the rows flagged valid, each with that record number.
C25_RecordNumbers ==
    pageOut.ok =>
        /\ Len(pageOut.records) = Len(pageOut.validity)
        /\ ~dropInvalid =>
            /\ \A k \in 0..(Len(SelectedPages) - 2) : \A j \in 0..(NumItems - 1) :
                /\ pageOut.records[SlotPosition(k, j)] = RecordAt(SelectedPages[k + 1], j)
                /\ pageOut.validity[SlotPosition(k, j)] = (j \in SelectedPages[k + 1].bitmap)
            /\ \A k \in 0..(Len(SelectedPages) - 1) : \A j \in 0..(NumItems - 1) :
                SlotPosition(k, j) <= Len(pageOut.records) =>
                    pageOut.records[SlotPosition(k, j)] = RecordAt(SelectedPages[k + 1], j)
        /\ pageFrame.made =>
            /\ {pageFrame.rows[r].record_no : r \in DOMAIN pageFrame.rows}
                    = {no \in DOMAIN pageOut.validity : pageOut.validity[no]}
            /\ \A r \in DOMAIN pageFrame.rows :
                    pageFrame.rows[r].data = pageOut.records[pageFrame.rows[r].record_no]
            /\ \A r \in 1..(Len(pageFrame.rows) - 1) :
                    pageFrame.rows[r].record_no < pageFrame.rows[r + 1].record_no

\* two pages, slot 0 of the first one skipped: the first row kept is slot 1
\* of the first page with record number 2, and slot 0 of the second page has
\* the record number after the last slot of the first
C25_Witness ==
    /\ pageFrame.made
    /\ Len(SelectedPages) = 2
    /\ SelectedPages[1].bitmap = {1}
    /\ Len(pageFrame.rows) >= 2
    /\ pageFrame.rows[1] = [record_no |-> 2, data |-> RecordAt(SelectedPages[1], 1)]
    /\ pageFrame.rows[2] = [record_no |-> NumItems + 1, data |-> RecordAt(SelectedPages[2], 0)]

---------------------------------------------------------------------------
(* The step of a row of the NDAX table *)

\* the rows for which fromFile has computed Q-Q0
ChargeAccumulated == nxOut.run /\ nxOut.raisedAt = 339

\* C27: for every retained row of an NDAX table, the step whose boundary is
\* used when Q-Q0 is accumulated across steps is the step assigned to the
\* row as Ns from its record number, also when invalid records before the
\* row were removed and its position is no longer its record number - 1.
C27_ChargeStepIsNs ==
    ChargeAccumulated =>
        \A k \in DOMAIN nxOut.dataframe :
            nxOut.dataframe[k].QQ0_step = nxOut.dataframe[k].Ns

---------------------------------------------------------------------------
(* Half-cycle boundaries are step boundaries *)

\* along the rows, the half-cycle index does not decrease and changes only
\* where Ns changes
HalfCyclesFollowSteps(rows) ==
    \A k \in 1..(Len(rows) - 1) :
        /\ rows[k].half_cycle <= rows[k + 1].half_cycle
        /\ rows[k].half_cycle # rows[k + 1].half_cycle => rows[k].Ns # rows[k + 1].Ns

\* the NDA decoder: boundaries found from the mode and Ns columns of the rows
NdaHalfCyclesFollowSteps == ndaOut.ok => HalfCyclesFollowSteps(ndaOut.rows)

\* the NDAX decoder: the rows whose steps are assigned have a half-cycle
\* index, found from the step table
NdaxHalfCyclesFollowSteps ==
    ChargeAccumulated =>
        /\ \A k \in DOMAIN nxOut.dataframe : "half_cycle" \in DOMAIN nxOut.dataframe[k]
        /\ HalfCyclesFollowSteps(nxOut.dataframe)

\* C26: in every decoded table the half-cycle index is non-decreasing along
\* the records and differs between consecutive records only at a record
\* where the step assignment also changes, for the NDA decoder and for the
\* NDAX decoder.
C26_HalfCycleBoundaries == NdaHalfCyclesFollowSteps /\ NdaxHalfCyclesFollowSteps

---------------------------------------------------------------------------
(* The experiment facades under failing decodes *)

\* C22: after any sequence of fromFile calls on one facade object, each of
\* which may succeed or fail at any stage of the decode, metadata and
\* measurement_sequence come from the same file, the last one decoded
\* successfully; a failing call leaves both as they were before it.
C22_FacadeConsistent ==
    /\ [](fcMetadata.from = fcSequence.from)
    /\ [][fcCalls' = fcCalls + 1 =>
            IF fcLast'.raised
            THEN fcMetadata' = fcMetadata /\ fcSequence' = fcSequence
            ELSE fcMetadata'.from = fcLast'.file /\ fcSequence'.from = fcLast'.file]_vars

---------------------------------------------------------------------------
(* The columns every measurement table has *)

\* elapsed time, potential, current, net charge, step index and half-cycle
\* index under the names the MPR catalog gives them
MprRequiredColumns == {"time", "Ewe", "I", "Q-Q0", "Ns", "half cycle"}

\* the same columns of a row of the NDA and NDAX tables
NewareRequiredColumns == {"time", "Ewe", "current", "QQ0", "Ns", "half_cycle"}

MprTableComplete ==
    (mprPc = "ready" /\ table.ok) =>
        /\ Len(table.cols) = Len(colList)
        /\ \A c \in DOMAIN table.cols : Len(table.cols[c]) = numDataPts
        /\ MprRequiredColumns \subseteq {colList[c].name : c \in DOMAIN colList}

NdaTableComplete ==
    ndaOut.ok => \A k \in DOMAIN ndaOut.rows : NewareRequiredColumns \subseteq DOMAIN ndaOut.rows[k]

NdaxTableComplete ==
    nxOut.ok => \A k \in DOMAIN nxOut.returned : NewareRequiredColumns \subseteq DOMAIN nxOut.returned[k]

\* C21: every table returned by a successful decode of an MPR, NDA or NDAX
\* file has columns of equal length and holds at least elapsed time,
\* working-electrode potential, current, net charge (Q-Q0), step index (Ns)
\* and half-cycle index, whatever column codes or records the file holds.
C21_RequiredColumns == MprTableComplete /\ NdaTableComplete /\ NdaxTableComplete

====
